---- MODULE Spec2Model ----
(***************************************************************************)
(* A model of the Leo compiler core:                                       *)
(*   - the signed-integer constraint gadgets div and sub                   *)
(*     (gadgets/src/signed_integer/arithmetic/{div,sub}.rs),               *)
(*   - the AST reduction framework's ReconstructingDirector                *)
(*     (ast/src/reducer/reconstructing_director.rs).                       *)
(* Gadgets are modelled by the values (and the constant/allocated mode)    *)
(* they compute; the director by the sequence of reducer hooks it calls.   *)
(***************************************************************************)
EXTENDS Integers, Sequences, FiniteSets, TLC

VARIABLES
    lhs,        \* gadget spec: the left operand  (self)
    rhs,        \* gadget spec: the right operand (other)
    op,         \* gadget spec: "none" before the call, then "div" or "sub"
    out,        \* gadget spec: what the call returned
    director,   \* director spec: the ReconstructingDirector (reducer, in_circuit)
                \*   and the hooks its last traversal called (log)
    program,    \* director spec: the program handed to reduce_program
    result,     \* director spec: what the last reduce_program returned
    runs,       \* director spec: reduce_program calls made on this director
    integers,   \* integer spec: the two operands <<a, b>>
    cs1,        \* integer spec: the constraint system
    cs2,        \* integer spec: the constraint system of a second run
    invoked,    \* integer spec: the last call made (method, span)
    returned,   \* integer spec: what the last call returned
    calls,      \* integer spec: calls made so far
    dump,       \* stages spec: one run of the stage-dump binary
    cli,        \* new spec: one run of the `new` command and the disk
    test        \* tests spec: one compiler test case and its outcome

gvars == <<lhs, rhs, op, out>>
dvars == <<director, program, result, runs>>
ivars == <<integers, cs1, cs2, invoked, returned, calls>>
toolvars == <<dump, cli, test>>
vars == <<lhs, rhs, op, out, director, program, result, runs,
          integers, cs1, cs2, invoked, returned, calls, dump, cli, test>>

(***************************************************************************)
(* Signed integer gadgets.  An Int is its width (<$gadget as Int>::SIZE),  *)
(* its tracked value and whether its bits are constants or allocated       *)
(* variables; a failed gadget call is a record with ok = FALSE that every  *)
(* later step hands on (Rust's `?`).  div_int_impl! and sub_int_impl! are  *)
(* instantiated at Int8, Int16, Int32, Int64 and Int128: one body, run at  *)
(* the width of its operands.                                              *)
(***************************************************************************)

\* <$gadget as Int>::SIZE of Int8, the narrowest kind div_int_impl! is
\* instantiated at, and the width of the gadget specification's operands.
SIZE == 8

\* The widest kind whose gadgets are run on machine integers.
MaxSize == 32

\* The widths div_int_impl! and sub_int_impl! are instantiated at, up to
\* MaxSize.
Widths == {size \in {8, 16, 32, 64, 128} : size <= MaxSize}

\* <$gadget as Int>::IntegerType::MIN and ::MAX at each width, written with
\* 2 ^ (size - 2) so that the bounds of 32 bits are computed inside them.
MinAt == [size \in Widths |-> -(2 ^ (size - 2)) - (2 ^ (size - 2))]
MaxAt == [size \in Widths |-> ((2 ^ (size - 2)) - 1) + (2 ^ (size - 2))]

MinOf(size) == MinAt[size]
MaxOf(size) == MaxAt[size]

MIN == MinOf(SIZE)
MAX == MaxOf(SIZE)

SignedInt(size, v, c) ==
    [ok |-> TRUE, err |-> "", value |-> v, const |-> c, size |-> size]
Int8(v, c) == SignedInt(SIZE, v, c)
Err(e) == [ok |-> FALSE, err |-> e, value |-> 0, const |-> FALSE, size |-> 0]

constant(v) == Int8(v, TRUE)
alloc(v) == Int8(v, FALSE)

Boolean_constant(b) == [value |-> b, const |-> TRUE]
Boolean_alloc(b) == [value |-> b, const |-> FALSE]

\* PartialEq of the gadget: the tracked values are known and equal.
eq(x, y) == x.value = y.value

result_is_constant(x, y) == x.const /\ y.const

\* The sign bit, bits.last(): a Boolean of the operand's mode.
msb(x) == [value |-> x.value < 0, const |-> x.const]

\* Bit k (little-endian) of a non-negative value.
bit(x, k) == [value |-> ((x.value \div (2 ^ k)) % 2) = 1, const |-> x.const]

InRangeOf(size, v) == MinOf(size) <= v /\ v <= MaxOf(size)
InRange(v) == InRangeOf(SIZE, v)

\* The negation leaves the range for MIN alone.
neg(x) ==
    IF ~x.ok THEN x
    ELSE IF x.value = MinOf(x.size) THEN Err("Overflow")
    ELSE SignedInt(x.size, -x.value, x.const)

add(x, y) ==
    IF ~x.ok THEN x
    ELSE IF ~y.ok THEN y
    ELSE IF ~InRangeOf(x.size, x.value + y.value) THEN Err("Overflow")
    ELSE SignedInt(x.size, x.value + y.value, x.const /\ y.const)

\* A constant condition hands back a clone of the selected operand; an
\* allocated condition allocates the result.  Both operands were unwrapped
\* before the call, so a failure of either one aborts.
conditionally_select(cond, first, second) ==
    IF ~first.ok THEN first
    ELSE IF ~second.ok THEN second
    ELSE IF cond.const THEN (IF cond.value THEN first ELSE second)
    ELSE SignedInt(first.size, IF cond.value THEN first.value ELSE second.value,
             FALSE)

Boolean_conditionally_select(cond, first, second) ==
    IF cond.const THEN (IF cond.value THEN first ELSE second)
    ELSE [value |-> IF cond.value THEN first.value ELSE second.value,
          const |-> FALSE]

evaluate_equal(x, y) ==
    [value |-> x.value = y.value, const |-> x.const /\ y.const]

Boolean_evaluate_equal(x, y) ==
    [value |-> x.value = y.value, const |-> x.const /\ y.const]

Boolean_and(x, y) ==
    IF x.const /\ ~x.value THEN Boolean_constant(FALSE)
    ELSE IF y.const /\ ~y.value THEN Boolean_constant(FALSE)
    ELSE [value |-> x.value /\ y.value, const |-> x.const /\ y.const]

greater_than_or_equal(x, y) ==
    [value |-> x.value >= y.value, const |-> x.const /\ y.const]

(***************************************************************************)
(* sub_int_impl::sub: self + (-other).                                     *)
(***************************************************************************)
sub(self, other) ==
    LET other_neg == neg(other)
    IN  add(self, other_neg)

(***************************************************************************)
(* div_int_impl::div.                                                      *)
(***************************************************************************)

\* One pass of the long-division loop, for i = 1 .. SIZE - 1 (the sign bit,
\* i = 0, is skipped), SIZE being the operands' width; bit is
\* a.bits[SIZE - 1 - i].  Returns the sequence of
\* the iterations' values, ending at the first failed one.
RECURSIVE div_loop(_, _, _, _, _, _, _)
\* The loop with `r > b` for the comparison: the divisor is not subtracted
\* when the remainder equals it.
div_loop_StrictCompare(i, q, r, a, b, one, true_bit) ==
    IF i > a.size - 1 THEN <<>>
    ELSE
        LET bit_i == bit(a, a.size - 1 - i)
            r_shift == add(r, r)
            r_new == add(r_shift, one)
            r_inc == conditionally_select(bit_i, r_new, r_shift)
            can_sub == [value |-> r_inc.value > b.value,
                        const |-> r_inc.const /\ b.const]
            sub_i == sub(r_inc, b)
            r_next == conditionally_select(can_sub, sub_i, r_inc)
            index == a.size - 1 - i
            bit_value == 2 ^ index
            q_new == SignedInt(q.size, q.value + bit_value,
                               q.const /\ true_bit.const)
            q_next == conditionally_select(can_sub, q_new, q)
            failed == ~r_shift.ok \/ ~r_new.ok \/ ~sub_i.ok
            rec == [i |-> i, index |-> index, bit |-> bit_i.value,
                    r_shift |-> r_shift, r_new |-> r_new, r_inc |-> r_inc,
                    can_sub |-> can_sub.value, sub |-> sub_i,
                    r |-> r_next, q |-> q_next, failed |-> failed]
        IN  IF failed THEN <<rec>>
            ELSE <<rec>> \o div_loop(i + 1, q_next, r_next, a, b, one, true_bit)

\* The loop with the quotient bit written one place too low (index is
\* decremented twice).
div_loop_BitBelow(i, q, r, a, b, one, true_bit) ==
    IF i > a.size - 1 THEN <<>>
    ELSE
        LET bit_i == bit(a, a.size - 1 - i)
            r_shift == add(r, r)
            r_new == add(r_shift, one)
            r_inc == conditionally_select(bit_i, r_new, r_shift)
            can_sub == greater_than_or_equal(r_inc, b)
            sub_i == sub(r_inc, b)
            r_next == conditionally_select(can_sub, sub_i, r_inc)
            index == a.size - 1 - i
            bit_value == IF index = 0 THEN 0 ELSE 2 ^ (index - 1)
            q_new == SignedInt(q.size, q.value + bit_value,
                               q.const /\ true_bit.const)
            q_next == conditionally_select(can_sub, q_new, q)
            failed == ~r_shift.ok \/ ~r_new.ok \/ ~sub_i.ok
            rec == [i |-> i, index |-> index, bit |-> bit_i.value,
                    r_shift |-> r_shift, r_new |-> r_new, r_inc |-> r_inc,
                    can_sub |-> can_sub.value, sub |-> sub_i,
                    r |-> r_next, q |-> q_next, failed |-> failed]
        IN  IF failed THEN <<rec>>
            ELSE <<rec>> \o div_loop(i + 1, q_next, r_next, a, b, one, true_bit)

div_loop(i, q, r, a, b, one, true_bit) ==
    IF i > a.size - 1 THEN <<>>
    ELSE
        LET bit_i == bit(a, a.size - 1 - i)
            r_shift == add(r, r)
            r_new == add(r_shift, one)
            r_inc == conditionally_select(bit_i, r_new, r_shift)
            can_sub == greater_than_or_equal(r_inc, b)
            sub_i == sub(r_inc, b)
            r_next == conditionally_select(can_sub, sub_i, r_inc)
            index == a.size - 1 - i
            bit_value == 2 ^ index
            q_new == SignedInt(q.size, q.value + bit_value,
                               q.const /\ true_bit.const)
            q_next == conditionally_select(can_sub, q_new, q)
            failed == ~r_shift.ok \/ ~r_new.ok \/ ~sub_i.ok
            rec == [i |-> i, index |-> index, bit |-> bit_i.value,
                    r_shift |-> r_shift, r_new |-> r_new, r_inc |-> r_inc,
                    can_sub |-> can_sub.value, sub |-> sub_i,
                    r |-> r_next, q |-> q_next, failed |-> failed]
        IN  IF failed THEN <<rec>>
            ELSE <<rec>> \o div_loop(i + 1, q_next, r_next, a, b, one, true_bit)

\* "set to zero if we know result is fractional"
fraction(other_is_min, allocated_zero, q) ==
    conditionally_select(other_is_min, allocated_zero, q)

\* "set to one if we know result is division of the minimum number by itself"
one_result_Skipped(both_min, allocated_one, q) == q

one_result(both_min, allocated_one, q) ==
    conditionally_select(both_min, allocated_one, q)

self_or_quotient(self_is_zero, self, q) ==
    conditionally_select(self_is_zero, self, q)

DivisionByZero == [res |-> Err("DivisionByZero"), zero_check |-> TRUE,
                   trace |-> <<>>, a |-> Err(""), b |-> Err(""),
                   pre |-> <<>>, q_loop |-> Err(""), q_neg |-> Err("")]

\* div without the a_set guard: the dividend itself is negated, MIN included.
div_body_NoMinGuard(self, other) ==
    LET is_constant == Boolean_constant(result_is_constant(self, other))
        allocated_true == Boolean_alloc(TRUE)
        true_bit == Boolean_conditionally_select(
                        is_constant, Boolean_constant(TRUE), allocated_true)
        allocated_one == SignedInt(self.size, 1, FALSE)
        one == conditionally_select(is_constant, SignedInt(self.size, 1, TRUE),
                                    allocated_one)
        allocated_zero == SignedInt(self.size, 0, FALSE)
        zero == conditionally_select(is_constant, SignedInt(self.size, 0, TRUE),
                                     allocated_zero)
        self_is_zero == Boolean_constant(eq(self, SignedInt(self.size, 0, TRUE)))
        min == SignedInt(self.size, MinOf(self.size), TRUE)
        other_is_min == evaluate_equal(other, min)
        self_is_min == evaluate_equal(self, min)
        both_min == Boolean_and(other_is_min, self_is_min)
        negative_one == neg(allocated_one)
        a_valid == add(min, allocated_one)
        a_set == conditionally_select(self_is_min, a_valid, self)
        b_set == conditionally_select(other_is_min, negative_one, other)
        b_msb == msb(other)
        a_msb == msb(self)
        positive == Boolean_evaluate_equal(a_msb, b_msb)
        a_comp == neg(self)
        a == conditionally_select(a_msb, a_comp, self)
        b_comp == neg(b_set)
        b == conditionally_select(b_msb, b_comp, b_set)
        pre_ok == negative_one.ok /\ a_valid.ok /\ a_comp.ok /\ b_comp.ok
        trace == IF pre_ok THEN div_loop(1, zero, zero, a, b, one, true_bit)
                 ELSE <<>>
        loop_ok == pre_ok /\ \A k \in 1..Len(trace) : ~trace[k].failed
        q_loop == IF ~pre_ok THEN Err("Overflow")
                  ELSE IF ~loop_ok THEN Err("Overflow")
                  ELSE trace[Len(trace)].q
        q_neg == neg(q_loop)
        q_signed == conditionally_select(positive, q_loop, q_neg)
        q_fraction == fraction(other_is_min, allocated_zero, q_signed)
        q_one == one_result(both_min, allocated_one, q_fraction)
        res == self_or_quotient(self_is_zero, self, q_one)
    IN  [res |-> res, zero_check |-> FALSE, trace |-> trace, a |-> a, b |-> b,
         pre |-> <<negative_one, a_valid, a_comp, b_comp>>,
         q_loop |-> q_loop, q_neg |-> q_neg]

div_body(self, other) ==
    LET is_constant == Boolean_constant(result_is_constant(self, other))
        allocated_true == Boolean_alloc(TRUE)
        true_bit == Boolean_conditionally_select(
                        is_constant, Boolean_constant(TRUE), allocated_true)
        allocated_one == SignedInt(self.size, 1, FALSE)
        one == conditionally_select(is_constant, SignedInt(self.size, 1, TRUE),
                                    allocated_one)
        allocated_zero == SignedInt(self.size, 0, FALSE)
        zero == conditionally_select(is_constant, SignedInt(self.size, 0, TRUE),
                                     allocated_zero)
        self_is_zero == Boolean_constant(eq(self, SignedInt(self.size, 0, TRUE)))
        min == SignedInt(self.size, MinOf(self.size), TRUE)
        other_is_min == evaluate_equal(other, min)
        self_is_min == evaluate_equal(self, min)
        both_min == Boolean_and(other_is_min, self_is_min)
        negative_one == neg(allocated_one)
        a_valid == add(min, allocated_one)
        a_set == conditionally_select(self_is_min, a_valid, self)
        b_set == conditionally_select(other_is_min, negative_one, other)
        b_msb == msb(other)
        a_msb == msb(self)
        positive == Boolean_evaluate_equal(a_msb, b_msb)
        a_comp == neg(a_set)
        a == conditionally_select(a_msb, a_comp, self)
        b_comp == neg(b_set)
        b == conditionally_select(b_msb, b_comp, b_set)
        pre_ok == negative_one.ok /\ a_valid.ok /\ a_comp.ok /\ b_comp.ok
        trace == IF pre_ok THEN div_loop(1, zero, zero, a, b, one, true_bit)
                 ELSE <<>>
        loop_ok == pre_ok /\ \A k \in 1..Len(trace) : ~trace[k].failed
        q_loop == IF ~pre_ok THEN Err("Overflow")
                  ELSE IF ~loop_ok THEN Err("Overflow")
                  ELSE trace[Len(trace)].q
        q_neg == neg(q_loop)
        q_signed == conditionally_select(positive, q_loop, q_neg)
        q_fraction == fraction(other_is_min, allocated_zero, q_signed)
        q_one == one_result(both_min, allocated_one, q_fraction)
        res == self_or_quotient(self_is_zero, self, q_one)
    IN  [res |-> res, zero_check |-> FALSE, trace |-> trace, a |-> a, b |-> b,
         pre |-> <<negative_one, a_valid, a_comp, b_comp>>,
         q_loop |-> q_loop, q_neg |-> q_neg]

div_NoZeroCheck(self, other) == div_body(self, other)

div(self, other) ==
    IF eq(other, SignedInt(other.size, 0, TRUE)) THEN DivisionByZero
    ELSE div_body(self, other)

(***************************************************************************)
(* The gadget specification: two operands of every value and mode, then    *)
(* one call of div or of sub.                                              *)
(***************************************************************************)
Operands == {constant(v) : v \in MIN..MAX} \cup {alloc(v) : v \in MIN..MAX}

Pending == [res |-> Err("pending")]

GInit ==
    /\ lhs \in Operands
    /\ rhs \in Operands
    /\ op = "none"
    /\ out = Pending
    /\ director = <<>> /\ program = <<>> /\ result = <<>> /\ runs = 0
    /\ integers = <<>> /\ cs1 = <<>> /\ cs2 = <<>> /\ invoked = <<>> /\ returned = <<>> /\ calls = 0
    /\ dump = <<>> /\ cli = <<>> /\ test = <<>>

Div ==
    /\ op = "none"
    /\ op' = "div"
    /\ out' = div(lhs, rhs)
    /\ UNCHANGED <<lhs, rhs>>
    /\ UNCHANGED dvars
    /\ UNCHANGED ivars
    /\ UNCHANGED toolvars

Sub ==
    /\ op = "none"
    /\ op' = "sub"
    /\ out' = [res |-> sub(lhs, rhs)]
    /\ UNCHANGED <<lhs, rhs>>
    /\ UNCHANGED dvars
    /\ UNCHANGED ivars
    /\ UNCHANGED toolvars

GNext == Div \/ Sub

SpecGadget == GInit /\ [][GNext]_vars

(***************************************************************************)
(* Claims about the gadgets, checked under SpecGadget.                     *)
(***************************************************************************)

\* The native quotient, truncated toward zero (Rust's `/` on iN).
Abs(v) == IF v < 0 THEN -v ELSE v
NativeDiv(n, d) ==
    IF (n < 0) = (d < 0) THEN Abs(n) \div Abs(d) ELSE -(Abs(n) \div Abs(d))

DivDone == op = "div"
SubDone == op = "sub"

\* C1: for every pair N, D with D # 0 other than MIN / -1, div returns the
\* native truncated quotient N / D; in particular MIN / 1 = MIN.
C1_DivIsNativeQuotient ==
    (DivDone /\ rhs.value # 0 /\ ~(lhs.value = MIN /\ rhs.value = -1))
        => (out.res.ok /\ out.res.value = NativeDiv(lhs.value, rhs.value))

\* C2: MIN / MIN = 1, x / MIN = 0 for x # MIN, and 0 / y = 0 for y # 0,
\* for constant and for allocated operands alike.
C2_DivisionSpecials ==
    DivDone =>
        /\ (lhs.value = MIN /\ rhs.value = MIN)
               => (out.res.ok /\ out.res.value = 1)
        /\ (lhs.value # MIN /\ rhs.value = MIN)
               => (out.res.ok /\ out.res.value = 0)
        /\ (lhs.value = 0 /\ rhs.value # 0)
               => (out.res.ok /\ out.res.value = 0)

\* C2 witness: MIN / MIN on allocated operands has returned 1.
C2_Witness ==
    /\ DivDone /\ lhs = alloc(MIN) /\ rhs = alloc(MIN)
    /\ out.res.ok /\ out.res.value = 1

\* C3: x / 0 fails with DivisionByZero for every x, for the constant 0 and
\* for an allocated divisor whose value is 0; no quotient is returned.
C3_DivisionByZero ==
    (DivDone /\ rhs.value = 0)
        => (~out.res.ok /\ out.res.err = "DivisionByZero")

\* C3 witness: 5 / b with the allocated input b = 0 has failed.
C3_Witness ==
    /\ DivDone /\ lhs = alloc(5) /\ rhs = alloc(0)
    /\ ~out.res.ok /\ out.res.err = "DivisionByZero"

\* C4: sub returns a - b whenever a - b is representable, and fails with an
\* overflow error only when it is not.
C4_SubIsNativeDifference ==
    SubDone =>
        IF InRange(lhs.value - rhs.value)
        THEN out.res.ok /\ out.res.value = lhs.value - rhs.value
        ELSE ~out.res.ok /\ out.res.err = "Overflow"


\* C20: when both operands of div are constants and D # 0, the quotient the
\* gadget returns is a constant, never an allocated variable (in particular
\* the 0 it returns for D = MIN and the 1 it returns for MIN / MIN).
C20_ConstantOperandsGiveConstantQuotient ==
    (DivDone /\ lhs.const /\ rhs.const /\ rhs.value # 0)
        => (out.res.ok /\ out.res.const)


(***************************************************************************)
(* The AST.  Every node is a record                                        *)
(*   kind    the Rust type (Expression, BinaryExpression as "Binary", ...) *)
(*   variant the enum variant, for enums                                   *)
(*   data    the fields the director never reduces (operator, dimensions,  *)
(*           index, format-string parts, package access, name)             *)
(*   id      the node's place in the source (its span)                     *)
(*   kids    the fields the director reduces, in the struct's order;       *)
(*           an Option field is the node or NoneNode, a Vec field a Vec.   *)
(***************************************************************************)
Node(kind, variant, data, id, kids) ==
    [kind |-> kind, variant |-> variant, data |-> data, id |-> id, kids |-> kids]

NoneNode == Node("None", "", <<>>, <<>>, <<>>)
Vec(elems) == Node("Vec", "", <<>>, <<>>, elems)

IsSome(n) == n.kind # "None"

(***************************************************************************)
(* The reducer: the hooks' behaviour.  A hook returns Ok(node) or Err.     *)
(*   identity      every hook returns the node rebuilt from the reduced    *)
(*                 parts (the trait's default)                             *)
(*   fail, at n    as identity, but the n-th hook call of a traversal      *)
(*                 returns an error                                        *)
(*   rewrite, h    as identity, but hook h returns a node of its own       *)
(*   canonicalize  the Canonicalizer's desugarings                         *)
(***************************************************************************)
Reducer(mode, at, hook) == [mode |-> mode, at |-> at, hook |-> hook]

\* The node a rewriting hook returns: of the hook's return type, unrelated to
\* the tentative node, with a child of its own.
Synthesized(kind) ==
    Node(kind, "Synthesized", <<>>, <<0>>,
         <<Node("Identifier", "", <<"synthesized">>, <<0, 1>>, <<>>)>>)

IsCompound(assign) == assign.data # <<"=">>

\* An assignee read as an expression: the identifier, then one access
\* expression for each assignee access.
RECURSIVE AssigneeExpression(_, _, _)
AssigneeExpression(base, accesses, id) ==
    IF accesses = <<>> THEN base
    ELSE LET acc == accesses[1]
             inner ==
                 CASE acc.variant = "ArrayIndex" ->
                        Node("ArrayAccess", "", <<>>, id, <<base, acc.kids[1]>>)
                   [] acc.variant = "ArrayRange" ->
                        Node("ArrayRangeAccess", "", <<>>, id,
                             <<base, acc.kids[1], acc.kids[2]>>)
                   [] acc.variant = "Member" ->
                        Node("CircuitMemberAccess", "", <<>>, id,
                             <<base, acc.kids[1]>>)
                   [] OTHER ->
                        Node("TupleAccess", "", acc.data, id, <<base>>)
             variant ==
                 CASE acc.variant = "ArrayIndex" -> "ArrayAccess"
                   [] acc.variant = "ArrayRange" -> "ArrayRangeAccess"
                   [] acc.variant = "Member" -> "CircuitMemberAccess"
                   [] OTHER -> "TupleAccess"
         IN  AssigneeExpression(Node("Expression", variant, <<>>, id, <<inner>>),
                                Tail(accesses), id)

\* Compound assignment: a op= b becomes a = a op b.
canonicalize_assign(new) ==
    IF ~IsCompound(new) THEN new
    ELSE LET assignee == new.kids[1]
             value == new.kids[2]
             left == AssigneeExpression(
                        Node("Expression", "Identifier", <<>>, assignee.id,
                             <<assignee.kids[1]>>),
                        assignee.kids[2].kids, assignee.id)
             binary == Node("Binary", "", <<new.data[1]>>, new.id, <<left, value>>)
         IN  [new EXCEPT !.data = <<"=">>,
                         !.kids = <<assignee,
                                    Node("Expression", "Binary", <<>>, new.id,
                                         <<binary>>)>>]

\* Array dimension flattening: [[T; m]; n] carries the one sequence (n, m).
canonicalize_type(new) ==
    IF new.variant = "Array" /\ new.kids[1].variant = "Array"
    THEN [new EXCEPT !.data = new.data \o new.kids[1].data,
                     !.kids = new.kids[1].kids]
    ELSE new

\* Array-init with a tuple of dimensions: [x; (m, n)] becomes [[x; n]; m].
RECURSIVE canonicalize_array_init(_)
canonicalize_array_init(new) ==
    IF Len(new.data) <= 1 THEN new
    ELSE LET inner == canonicalize_array_init([new EXCEPT !.data = Tail(new.data)])
         IN  [new EXCEPT !.data = <<new.data[1]>>,
                         !.kids = <<Node("Expression", "ArrayInit", <<>>, new.id,
                                         <<inner>>)>>]

\* What the canonicalizer knows while it rewrites a member of a circuit: the
\* enclosing circuit's name and its members' names and, inside a function,
\* the function's declared return type (return-type hoisting: the hook
\* reduce_function is handed the reduced output next to the reduced block,
\* so the type is in hand while the body is rewritten).
Context(circuit_name, members, output) ==
    [circuit_name |-> circuit_name, members |-> members, output |-> output]

\* The names of a circuit's members.
member_names(members) ==
    {(IF members[i].variant = "CircuitFunction"
      THEN members[i].kids[1].kids[1].data[1]
      ELSE members[i].kids[1].data[1]) : i \in 1..Len(members)}

\* `Self` inside a circuit becomes the Circuit(name) type of the enclosing
\* circuit.
canonicalize_self_type(type_, context) ==
    IF type_.variant = "SelfType" /\ IsSome(context.circuit_name)
    THEN Node("Type", "Circuit", <<>>, type_.id, <<context.circuit_name>>)
    ELSE type_

\* The resolution that takes every identifier of the method, the receiver
\* `self` included, for a bare reference.
resolve_implicit_self_EveryIdentifier(expression, context) ==
    IF expression.variant = "Identifier"
           /\ expression.kids[1].data[1] \in context.members \cup {"self"}
    THEN Node("Expression", "CircuitMemberAccess", <<>>, expression.id,
              <<Node("CircuitMemberAccess", "", <<>>, expression.id,
                     <<Node("Expression", "Identifier", <<>>, expression.id,
                            <<Node("Identifier", "", <<"self">>, expression.id,
                                   <<>>)>>),
                       expression.kids[1]>>)>>)
    ELSE expression

\* Implicit-self resolution: a bare reference to a member of the enclosing
\* circuit acquires the receiver `self`.
resolve_implicit_self(expression, context) ==
    IF expression.variant = "Identifier"
           /\ expression.kids[1].data[1] \in context.members
    THEN Node("Expression", "CircuitMemberAccess", <<>>, expression.id,
              <<Node("CircuitMemberAccess", "", <<>>, expression.id,
                     <<Node("Expression", "Identifier", <<>>, expression.id,
                            <<Node("Identifier", "", <<"self">>, expression.id,
                                   <<>>)>>),
                       expression.kids[1]>>)>>)
    ELSE expression

\* The rewrite of a circuit member, bottom-up: the types, then the
\* expressions, of every node below it.
RECURSIVE canonicalize_member(_, _)
canonicalize_member(node, context) ==
    LET inside == IF node.kind = "Function"
                  THEN [context EXCEPT !.output = node.kids[4]]
                  ELSE context
        rebuilt == [node EXCEPT !.kids =
                       [i \in 1..Len(node.kids) |->
                           canonicalize_member(node.kids[i], inside)]]
    IN  CASE rebuilt.kind = "Type" -> canonicalize_self_type(rebuilt, context)
          [] rebuilt.kind = "Expression" -> resolve_implicit_self(rebuilt, context)
          [] OTHER -> rebuilt

\* reduce_circuit: the reduced members, rewritten with the circuit in hand.
\* Only the functions' bodies hold bare references.
canonicalize_circuit(new) ==
    LET members == new.kids[2].kids
        context == Context(new.kids[1], member_names(members), NoneNode)
    IN  [new EXCEPT !.kids[2].kids =
            [i \in 1..Len(members) |->
                IF members[i].variant = "CircuitFunction"
                THEN canonicalize_member(members[i], context)
                ELSE canonicalize_member(members[i],
                                         [context EXCEPT !.members = {}])]]

\* reduce_function: the body under the declared return type.  Outside a
\* circuit there is no member to refer to and no circuit `Self` stands for.
canonicalize_function(new) ==
    [new EXCEPT !.kids[5] =
        canonicalize_member(new.kids[5], Context(NoneNode, {}, new.kids[4]))]

Canonicalizer(name, new) ==
    CASE name = "reduce_assign" -> canonicalize_assign(new)
      [] name = "reduce_type" -> canonicalize_type(new)
      [] name = "reduce_array_init" -> canonicalize_array_init(new)
      [] name = "reduce_function" -> canonicalize_function(new)
      [] name = "reduce_circuit" -> canonicalize_circuit(new)
      [] OTHER -> new

\* What hook `name` of reducer r returns for the tentative node `new`.
HookReturn(r, name, new) ==
    CASE r.mode = "rewrite" /\ r.hook = name -> Synthesized(new.kind)
      [] r.mode = "canonicalize" -> Canonicalizer(name, new)
      [] OTHER -> new

(***************************************************************************)
(* ReconstructingDirector.  A director d is [reducer, in_circuit, log]; a  *)
(* call returns the director as the call left it, with ok, err and val:    *)
(* Ok(val), or Err carrying the number of the hook call that failed.       *)
(* Each hook call appends one event to log:                                *)
(*   hook      the hook's name        n     the call's number              *)
(*   orig      the original node      new   the node rebuilt from the      *)
(*                                          reduced parts handed over      *)
(*   has_flag  the hook has an in_circuit parameter                        *)
(*   flag      the in_circuit argument (FALSE when there is none)          *)
(*   in_circuit  the director's flag when the hook was called              *)
(*   ok, ret   what the hook returned                                      *)
(***************************************************************************)
Director(reducer) == [reducer |-> reducer, in_circuit |-> FALSE, log |-> <<>>]

Ok(d, val) ==
    [reducer |-> d.reducer, in_circuit |-> d.in_circuit, log |-> d.log,
     ok |-> TRUE, err |-> 0, val |-> val]

CallHook(d, name, orig, new, has_flag, flag) ==
    LET n == Len(d.log) + 1
        fails == d.reducer.mode = "fail" /\ d.reducer.at = n
        ret == IF fails THEN NoneNode ELSE HookReturn(d.reducer, name, new)
        event == [hook |-> name, n |-> n, orig |-> orig, new |-> new,
                  has_flag |-> has_flag, flag |-> flag,
                  in_circuit |-> d.in_circuit, ok |-> ~fails, ret |-> ret]
    IN  [reducer |-> d.reducer, in_circuit |-> d.in_circuit,
         log |-> Append(d.log, event),
         ok |-> ~fails, err |-> IF fails THEN n ELSE 0, val |-> ret]

hook_in_circuit_False(d, name, orig, new) ==
    CallHook(d, name, orig, new, TRUE, FALSE)

\* self.reducer.reduce_x(.., self.in_circuit)
hook_in_circuit(d, name, orig, new) ==
    CallHook(d, name, orig, new, TRUE, d.in_circuit)

\* self.reducer.reduce_x(..): a hook without an in_circuit parameter
hook_plain(d, name, orig, new) ==
    CallHook(d, name, orig, new, FALSE, FALSE)

\* The tentative node: the original's own fields around the reduced parts.
Rebuild_CloneOriginal(orig, kids) == orig

Rebuild(orig, kids) == [orig EXCEPT !.kids = kids]

\* How a function of the director treats one field of its node:
\*   One(f)      self.reduce_f(&x)?
\*   Option(f)   x.as_ref().map(|x| self.reduce_f(x)).transpose()?
\*   Each(f)     for x in xs.iter() { out.push(self.reduce_f(x)?) }
\*   Entries(f)  for (identifier, x) in map.iter() {
\*                   out.insert(self.reduce_identifier(identifier)?,
\*                              self.reduce_f(x)?) }
One(f) == <<"one", f>>
Option(f) == <<"option", f>>
Each(f) == <<"each", f>>
Entries(f) == <<"entries", f>>
Entry_(f) == <<"entry", f>>

\* IndexMap::insert: a key already present keeps its place and takes the new
\* value; a new key is appended.  An entry is the node Entry(key, value).
Entry(key, value) == Node("Entry", "", <<>>, <<>>, <<key, value>>)

IndexMap_insert_Front(entries, key, value) ==
    <<Entry(key, value)>> \o entries

IndexMap_insert(entries, key, value) ==
    IF \E i \in 1..Len(entries) : entries[i].kids[1] = key
    THEN [i \in 1..Len(entries) |->
             IF entries[i].kids[1] = key THEN Entry(key, value) ELSE entries[i]]
    ELSE Append(entries, Entry(key, value))

RECURSIVE IndexMap_collect(_, _)
IndexMap_collect(entries, acc) ==
    IF entries = <<>> THEN acc
    ELSE IndexMap_collect(Tail(entries),
                          IndexMap_insert(acc, Head(entries).kids[1],
                                          Head(entries).kids[2]))

toggle_in_circuit_Set(d) == [d EXCEPT !.in_circuit = TRUE]

\* self.in_circuit = !self.in_circuit
toggle_in_circuit(d) == [d EXCEPT !.in_circuit = ~d.in_circuit]

\* What a function does with the reduced parts of its node:
\*   "in_circuit"  self.reducer.reduce_x(orig, <parts>, self.in_circuit)
\*   "plain"       self.reducer.reduce_x(orig, <parts>)
\*   "leave"       reduce_circuit_member: the flag is flipped back, then
\*                 self.reducer.reduce_circuit_member(orig, <parts>)
\*   "rebuild"     no hook: the same node around the reduced parts
\*   "vec"         the Vec the loop pushed the reduced elements on
\*   "index_map"   the IndexMap the loop inserted the reduced entries in
finish(d, orig, parts, name, how) ==
    CASE how = "in_circuit" ->
             hook_in_circuit(d, name, orig, Rebuild(orig, parts))
      [] how = "plain" -> hook_plain(d, name, orig, Rebuild(orig, parts))
      [] how = "leave" ->
             hook_plain(toggle_in_circuit(d), name, orig, Rebuild(orig, parts))
      [] how = "rebuild" -> Ok(d, Rebuild(orig, parts))
      [] how = "vec" -> Ok(d, Vec(parts))
      [] how = "index_map" ->
             Ok(d, Node("IndexMap", "", <<>>, <<>>,
                        IndexMap_collect(parts, <<>>)))

RECURSIVE reduce_field(_, _, _), reduce_node(_, _, _, _, _, _)

\* An Err is swallowed: the field is kept as it was and the function goes on.
reduce_node_Swallow(d, orig, fields, parts, name, how) ==
    IF Len(parts) = Len(fields) THEN finish(d, orig, parts, name, how)
    ELSE LET r == reduce_field(d, fields[Len(parts) + 1],
                               orig.kids[Len(parts) + 1])
         IN  IF r.ok
             THEN reduce_node(r, orig, fields, Append(parts, r.val), name, how)
             ELSE reduce_node(Ok(r, orig.kids[Len(parts) + 1]), orig, fields,
                              Append(parts, orig.kids[Len(parts) + 1]),
                              name, how)

\* One function of the director: the fields of its node are reduced in the
\* order the function names them, and the reduced parts go to finish.  The
\* `?` after a field returns an Err at once; an Ok value is kept and the
\* function goes on to its next field.
reduce_node(d, orig, fields, parts, name, how) ==
    IF Len(parts) = Len(fields) THEN finish(d, orig, parts, name, how)
    ELSE LET r == reduce_field(d, fields[Len(parts) + 1],
                               orig.kids[Len(parts) + 1])
         IN  IF r.ok
             THEN reduce_node(r, orig, fields, Append(parts, r.val), name, how)
             ELSE r

reduce_each(d, f, vec) ==
    reduce_node(d, vec, [i \in 1..Len(vec.kids) |-> One(f)], <<>>, "", "vec")

reduce_entries(d, f, map) ==
    reduce_node(d, map, [i \in 1..Len(map.kids) |-> Entry_(f)], <<>>, "",
                "index_map")

reduce_entry(d, f, entry) ==
    reduce_node(d, entry, <<One("identifier"), One(f)>>, <<>>, "", "rebuild")

reduce_identifier(d, identifier) ==
    hook_plain(d, "reduce_identifier", identifier, identifier)

reduce_group_tuple(d, group_tuple) ==
    hook_plain(d, "reduce_group_tuple", group_tuple, group_tuple)

reduce_type(d, type_) ==
    reduce_node(d, type_,
            CASE type_.variant = "Array" -> <<One("type")>>
              [] type_.variant = "Tuple" -> <<Each("type")>>
              [] type_.variant = "Circuit" -> <<One("identifier")>>
              [] OTHER -> <<>>,
        <<>>, "reduce_type", "in_circuit")

reduce_expression(d, expression) ==
    reduce_node(d, expression,
            CASE expression.variant = "Identifier" -> <<One("identifier")>>
              [] expression.variant = "Value" -> <<One("value")>>
              [] expression.variant = "Binary" -> <<One("binary")>>
              [] expression.variant = "Unary" -> <<One("unary")>>
              [] expression.variant = "Ternary" -> <<One("ternary")>>
              [] expression.variant = "Cast" -> <<One("cast")>>
              [] expression.variant = "ArrayInline" -> <<One("array_inline")>>
              [] expression.variant = "ArrayInit" -> <<One("array_init")>>
              [] expression.variant = "ArrayAccess" -> <<One("array_access")>>
              [] expression.variant = "ArrayRangeAccess" -> <<One("array_range_access")>>
              [] expression.variant = "TupleInit" -> <<One("tuple_init")>>
              [] expression.variant = "TupleAccess" -> <<One("tuple_access")>>
              [] expression.variant = "CircuitInit" -> <<One("circuit_init")>>
              [] expression.variant = "CircuitMemberAccess" -> <<One("circuit_member_access")>>
              [] expression.variant = "CircuitStaticFunctionAccess" -> <<One("circuit_static_fn_access")>>
              [] expression.variant = "Call" -> <<One("call")>>,
        <<>>, "reduce_expression", "in_circuit")

reduce_group_value(d, group_value) ==
    reduce_node(d, group_value,
            CASE group_value.variant = "Tuple" -> <<One("group_tuple")>>
              [] OTHER -> <<>>,
        <<>>, "reduce_group_value", "plain")

reduce_value(d, value) ==
    reduce_node(d, value,
            CASE value.variant = "Group" -> <<One("group_value")>>
              [] OTHER -> <<>>,
        <<>>, "reduce_value", "plain")

reduce_binary(d, binary) ==
    reduce_node(d, binary,
            <<One("expression"), One("expression")>>,
        <<>>, "reduce_binary", "in_circuit")

reduce_unary(d, unary) ==
    reduce_node(d, unary,
            <<One("expression")>>,
        <<>>, "reduce_unary", "in_circuit")

reduce_ternary(d, ternary) ==
    reduce_node(d, ternary,
            <<One("expression"), One("expression"), One("expression")>>,
        <<>>, "reduce_ternary", "in_circuit")

reduce_cast(d, cast) ==
    reduce_node(d, cast,
            <<One("expression"), One("type")>>,
        <<>>, "reduce_cast", "in_circuit")

\* One element of an array-inline: the same variant around the reduced
\* expression (no hook of its own).
reduce_spread_or_expression(d, element) ==
    reduce_node(d, element,
            <<One("expression")>>,
        <<>>, "", "rebuild")

reduce_array_inline(d, array_inline) ==
    reduce_node(d, array_inline,
            <<Each("spread_or_expression")>>,
        <<>>, "reduce_array_inline", "in_circuit")

reduce_array_init(d, array_init) ==
    reduce_node(d, array_init,
            <<One("expression")>>,
        <<>>, "reduce_array_init", "in_circuit")

reduce_array_access(d, array_access) ==
    reduce_node(d, array_access,
            <<One("expression"), One("expression")>>,
        <<>>, "reduce_array_access", "in_circuit")

reduce_array_range_access(d, array_range_access) ==
    reduce_node(d, array_range_access,
            <<One("expression"), Option("expression"), Option("expression")>>,
        <<>>, "reduce_array_range_access", "in_circuit")

reduce_tuple_init(d, tuple_init) ==
    reduce_node(d, tuple_init,
            <<Each("expression")>>,
        <<>>, "reduce_tuple_init", "in_circuit")

reduce_tuple_access(d, tuple_access) ==
    reduce_node(d, tuple_access,
            <<One("expression")>>,
        <<>>, "reduce_tuple_access", "in_circuit")

reduce_circuit_implied_variable_definition(d, variable) ==
    reduce_node(d, variable,
            <<One("identifier"), Option("expression")>>,
        <<>>, "reduce_circuit_implied_variable_definition", "in_circuit")

reduce_circuit_init(d, circuit_init) ==
    reduce_node(d, circuit_init,
            <<One("identifier"), Each("circuit_implied_variable_definition")>>,
        <<>>, "reduce_circuit_init", "in_circuit")

reduce_circuit_member_access(d, circuit_member_access) ==
    reduce_node(d, circuit_member_access,
            <<One("expression"), One("identifier")>>,
        <<>>, "reduce_circuit_member_access", "in_circuit")

reduce_circuit_static_fn_access(d, circuit_static_fn_access) ==
    reduce_node(d, circuit_static_fn_access,
            <<One("expression"), One("identifier")>>,
        <<>>, "reduce_circuit_static_fn_access", "in_circuit")

reduce_call(d, call) ==
    reduce_node(d, call,
            <<One("expression"), Each("expression")>>,
        <<>>, "reduce_call", "in_circuit")

reduce_statement(d, statement) ==
    reduce_node(d, statement,
            CASE statement.variant = "Return" -> <<One("return")>>
              [] statement.variant = "Definition" -> <<One("definition")>>
              [] statement.variant = "Assign" -> <<One("assign")>>
              [] statement.variant = "Conditional" -> <<One("conditional")>>
              [] statement.variant = "Iteration" -> <<One("iteration")>>
              [] statement.variant = "Console" -> <<One("console")>>
              [] statement.variant = "Expression" -> <<One("expression_statement")>>
              [] statement.variant = "Block" -> <<One("block")>>,
        <<>>, "reduce_statement", "in_circuit")

reduce_return(d, return_statement) ==
    reduce_node(d, return_statement,
            <<One("expression")>>,
        <<>>, "reduce_return", "in_circuit")

reduce_variable_name(d, variable_name) ==
    reduce_node(d, variable_name,
            <<One("identifier")>>,
        <<>>, "reduce_variable_name", "plain")

reduce_definition(d, definition) ==
    reduce_node(d, definition,
            <<Each("variable_name"), Option("type"), One("expression")>>,
        <<>>, "reduce_definition", "in_circuit")

reduce_assignee_access(d, access) ==
    reduce_node(d, access,
            CASE access.variant = "ArrayRange" -> <<Option("expression"), Option("expression")>>
              [] access.variant = "ArrayIndex" -> <<One("expression")>>
              [] access.variant = "Member" -> <<One("identifier")>>
              [] OTHER -> <<>>,
        <<>>, "reduce_assignee_access", "in_circuit")

reduce_assignee(d, assignee) ==
    reduce_node(d, assignee,
            <<One("identifier"), Each("assignee_access")>>,
        <<>>, "reduce_assignee", "in_circuit")

reduce_assign(d, assign) ==
    reduce_node(d, assign,
            <<One("assignee"), One("expression")>>,
        <<>>, "reduce_assign", "in_circuit")

reduce_conditional(d, conditional) ==
    reduce_node(d, conditional,
            <<One("expression"), One("block"), Option("statement")>>,
        <<>>, "reduce_conditional", "in_circuit")

reduce_iteration(d, iteration) ==
    reduce_node(d, iteration,
            <<One("identifier"), One("expression"), One("expression"), One("block")>>,
        <<>>, "reduce_iteration", "in_circuit")

\* FormatString { parts: Vec::new(), parameters: reduced, span: clone }: the
\* parts are not carried over.
reduce_console_formatted_NoParts(d, format) ==
    reduce_node(d, [format EXCEPT !.data = <<>>],
            <<Each("expression")>>,
        <<>>, "", "rebuild")

\* FormatString { parts: clone, parameters: reduced, span: clone }
reduce_console_formatted(d, format) ==
    reduce_node(d, format,
            <<Each("expression")>>,
        <<>>, "", "rebuild")

\* ConsoleFunction::Assert around the reduced expression, or the same
\* variant around the rebuilt FormatString.
reduce_console_function(d, function) ==
    reduce_node(d, function,
            CASE function.variant = "Assert" -> <<One("expression")>>
              [] OTHER -> <<One("console_formatted")>>,
        <<>>, "", "rebuild")

reduce_console(d, console_function_call) ==
    reduce_node(d, console_function_call,
            <<One("console_function")>>,
        <<>>, "reduce_console", "in_circuit")

reduce_expression_statement(d, expression) ==
    reduce_node(d, expression,
            <<One("expression")>>,
        <<>>, "reduce_expression_statement", "in_circuit")

reduce_block(d, block) ==
    reduce_node(d, block,
            <<Each("statement")>>,
        <<>>, "reduce_block", "in_circuit")

reduce_function_input_variable(d, variable) ==
    reduce_node(d, variable,
            <<One("identifier"), One("type")>>,
        <<>>, "reduce_function_input_variable", "in_circuit")

reduce_function_input(d, input) ==
    reduce_node(d, input,
            CASE input.variant = "Variable" -> <<One("function_input_variable")>>
              [] OTHER -> <<>>,
        <<>>, "reduce_function_input", "in_circuit")

\* Package { name: reduced, access: clone, span: clone }, and the same for
\* Packages.
reduce_package(d, package) ==
    reduce_node(d, package,
            <<One("identifier")>>,
        <<>>, "", "rebuild")

reduce_package_or_packages(d, package_or_packages) ==
    reduce_node(d, package_or_packages,
            <<One("package")>>,
        <<>>, "reduce_package_or_packages", "plain")

reduce_import(d, import) ==
    reduce_node(d, import,
            <<One("package_or_packages")>>,
        <<>>, "reduce_import", "plain")

reduce_annotation(d, annotation) ==
    reduce_node(d, annotation,
            <<One("identifier")>>,
        <<>>, "reduce_annotation", "plain")

reduce_function(d, function) ==
    reduce_node(d, function,
            <<One("identifier"), Each("annotation"), Each("function_input"), Option("type"), One("block")>>,
        <<>>, "reduce_function", "in_circuit")

\* The flag is flipped on entry and flipped back after the member's parts
\* are reduced; a `?` that returns early leaves it as it is.
reduce_circuit_member(d, circuit_member) ==
    reduce_node(toggle_in_circuit(d), circuit_member,
            CASE circuit_member.variant = "CircuitVariable" ->
                     <<One("identifier"), One("type")>>
              [] circuit_member.variant = "CircuitFunction" ->
                     <<One("function")>>,
        <<>>, "reduce_circuit_member", "leave")

reduce_circuit(d, circuit) ==
    reduce_node(d, circuit,
            <<One("identifier"), Each("circuit_member")>>,
        <<>>, "reduce_circuit", "plain")

reduce_program(d, prog) ==
    reduce_node(d, prog,
            <<Each("function_input"), Each("import"), Entries("circuit"), Entries("function")>>,
        <<>>, "reduce_program", "plain")

\* One field: the Option, Vec or IndexMap around it, or self.reduce_f(node).
reduce_field(d, field, node) ==
    CASE field[1] = "option" /\ ~IsSome(node) -> Ok(d, node)
      [] field[1] = "each" -> reduce_each(d, field[2], node)
      [] field[1] = "entries" -> reduce_entries(d, field[2], node)
      [] field[1] = "entry" -> reduce_entry(d, field[2], node)
      [] field[2] = "identifier" -> reduce_identifier(d, node)
      [] field[2] = "group_tuple" -> reduce_group_tuple(d, node)
      [] field[2] = "type" -> reduce_type(d, node)
      [] field[2] = "expression" -> reduce_expression(d, node)
      [] field[2] = "group_value" -> reduce_group_value(d, node)
      [] field[2] = "value" -> reduce_value(d, node)
      [] field[2] = "binary" -> reduce_binary(d, node)
      [] field[2] = "unary" -> reduce_unary(d, node)
      [] field[2] = "ternary" -> reduce_ternary(d, node)
      [] field[2] = "cast" -> reduce_cast(d, node)
      [] field[2] = "spread_or_expression" -> reduce_spread_or_expression(d, node)
      [] field[2] = "array_inline" -> reduce_array_inline(d, node)
      [] field[2] = "array_init" -> reduce_array_init(d, node)
      [] field[2] = "array_access" -> reduce_array_access(d, node)
      [] field[2] = "array_range_access" -> reduce_array_range_access(d, node)
      [] field[2] = "tuple_init" -> reduce_tuple_init(d, node)
      [] field[2] = "tuple_access" -> reduce_tuple_access(d, node)
      [] field[2] = "circuit_implied_variable_definition" -> reduce_circuit_implied_variable_definition(d, node)
      [] field[2] = "circuit_init" -> reduce_circuit_init(d, node)
      [] field[2] = "circuit_member_access" -> reduce_circuit_member_access(d, node)
      [] field[2] = "circuit_static_fn_access" -> reduce_circuit_static_fn_access(d, node)
      [] field[2] = "call" -> reduce_call(d, node)
      [] field[2] = "statement" -> reduce_statement(d, node)
      [] field[2] = "return" -> reduce_return(d, node)
      [] field[2] = "variable_name" -> reduce_variable_name(d, node)
      [] field[2] = "definition" -> reduce_definition(d, node)
      [] field[2] = "assignee_access" -> reduce_assignee_access(d, node)
      [] field[2] = "assignee" -> reduce_assignee(d, node)
      [] field[2] = "assign" -> reduce_assign(d, node)
      [] field[2] = "conditional" -> reduce_conditional(d, node)
      [] field[2] = "iteration" -> reduce_iteration(d, node)
      [] field[2] = "console_formatted" -> reduce_console_formatted(d, node)
      [] field[2] = "console_function" -> reduce_console_function(d, node)
      [] field[2] = "console" -> reduce_console(d, node)
      [] field[2] = "expression_statement" -> reduce_expression_statement(d, node)
      [] field[2] = "block" -> reduce_block(d, node)
      [] field[2] = "function_input_variable" -> reduce_function_input_variable(d, node)
      [] field[2] = "function_input" -> reduce_function_input(d, node)
      [] field[2] = "package" -> reduce_package(d, node)
      [] field[2] = "package_or_packages" -> reduce_package_or_packages(d, node)
      [] field[2] = "import" -> reduce_import(d, node)
      [] field[2] = "annotation" -> reduce_annotation(d, node)
      [] field[2] = "function" -> reduce_function(d, node)
      [] field[2] = "circuit_member" -> reduce_circuit_member(d, node)
      [] field[2] = "circuit" -> reduce_circuit(d, node)


(***************************************************************************)
(* The programs reduce_program is run on.  Program(k, v) has k entries in  *)
(* every container (expected inputs, imports, circuits, members,           *)
(* functions, annotations, inputs, statements, arguments, elements); v     *)
(* selects the variants.  The j-th statement of the b-th function body     *)
(* (top-level functions first, then the circuits' functions) has the       *)
(* selector w = 4v + 2(b - 1) + j - 1: it is variant w % 8 of Statement,   *)
(* its expressions are variant (w \div 2 + i) % 16 of Expression, and      *)
(* w \div 8 selects among the console functions, assignee accesses,        *)
(* operators and optional parts.  A node's id is its path from the root,   *)
(* so ids are unique.                                                      *)
(***************************************************************************)
MaxLen == 2
MaxVariant == 7

Ident(p, name) == Node("Identifier", "", <<name>>, p, <<>>)

\* The i-th of n nodes built by F, at paths p \o <<i>>.
TypeOf(v, p) ==
    LET prim(q) == Node("Type", "U32", <<>>, q, <<>>)
        array(q, dim, elem) == Node("Type", "Array", <<dim>>, q, <<elem>>)
    IN  CASE v % 5 = 0 -> prim(p)
          [] v % 5 = 1 -> array(p, "2", prim(p \o <<1>>))
          [] v % 5 = 2 -> Node("Type", "Tuple", <<>>, p,
                               <<Vec(<<prim(p \o <<1>>),
                                       Node("Type", "Circuit", <<>>, p \o <<2>>,
                                            <<Ident(p \o <<2, 1>>, "Foo")>>)>>)>>)
          [] v % 5 = 3 -> Node("Type", "Circuit", <<>>, p, <<Ident(p \o <<1>>, "Foo")>>)
          [] OTHER -> array(p, "4",
                            array(p \o <<1>>, "3",
                                  array(p \o <<1, 1>>, "2", prim(p \o <<1, 1, 1>>))))

ValueOf(v, p) ==
    CASE v % 8 = 3 ->
           Node("Value", "Group", <<>>, p,
                <<Node("GroupValue", "Tuple", <<>>, p \o <<1>>,
                       <<Node("GroupTuple", "", <<"x", "y">>, p \o <<1, 1>>, <<>>)>>)>>)
      [] v % 8 = 7 ->
           Node("Value", "Group", <<>>, p,
                <<Node("GroupValue", "Single", <<"1">>, p \o <<1>>, <<>>)>>)
      [] OTHER -> Node("Value", "Integer", <<"1">>, p, <<>>)

ExpressionVariants ==
    <<"Identifier", "Value", "Binary", "Unary", "Ternary", "Cast", "ArrayInline",
      "ArrayInit", "ArrayAccess", "ArrayRangeAccess", "TupleInit", "TupleAccess",
      "CircuitInit", "CircuitMemberAccess", "CircuitStaticFunctionAccess", "Call">>

RECURSIVE ExpressionOf(_, _, _, _)
ExpressionOf(v, depth, k, p) ==
    LET variant == IF depth = 0
                   THEN (IF v % 2 = 0 THEN "Identifier" ELSE "Value")
                   ELSE ExpressionVariants[(v % 16) + 1]
        q == p \o <<0>>
        child(i) == ExpressionOf(v + i, depth - 1, k, p \o <<i>>)
        children == [i \in 1..k |-> child(i + 1)]
        inner ==
            CASE variant = "Identifier" -> Ident(q, "a")
              [] variant = "Value" -> ValueOf(v, q)
              [] variant = "Binary" -> Node("Binary", "", <<"*">>, q, <<child(1), child(2)>>)
              [] variant = "Unary" -> Node("Unary", "", <<"-">>, q, <<child(1)>>)
              [] variant = "Ternary" ->
                     Node("Ternary", "", <<>>, q, <<child(1), child(2), child(3)>>)
              [] variant = "Cast" ->
                     Node("Cast", "", <<>>, q, <<child(1), TypeOf(v, p \o <<2>>)>>)
              [] variant = "ArrayInline" ->
                     Node("ArrayInline", "", <<>>, q,
                          <<Vec([i \in 1..k |->
                                   Node("SpreadOrExpression",
                                        IF i % 2 = 1 THEN "Expression" ELSE "Spread",
                                        <<>>, p \o <<i + 1, 0, 0>>, <<children[i]>>)])>>)
              [] variant = "ArrayInit" ->
                     Node("ArrayInit", "", <<"2", "3">>, q, <<child(1)>>)
              [] variant = "ArrayAccess" ->
                     Node("ArrayAccess", "", <<>>, q, <<child(1), child(2)>>)
              [] variant = "ArrayRangeAccess" ->
                     Node("ArrayRangeAccess", "", <<>>, q,
                          <<child(1), IF k = 0 THEN child(2) ELSE NoneNode,
                            IF k = 1 THEN NoneNode ELSE child(3)>>)
              [] variant = "TupleInit" -> Node("TupleInit", "", <<>>, q, <<Vec(children)>>)
              [] variant = "TupleAccess" ->
                     Node("TupleAccess", "", <<"0">>, q, <<child(1)>>)
              [] variant = "CircuitInit" ->
                     Node("CircuitInit", "", <<>>, q,
                          <<Ident(p \o <<1>>, "Foo"),
                            Vec([i \in 1..k |->
                                   Node("CircuitImpliedVariableDefinition", "", <<>>,
                                        p \o <<i + 1, 0, 0>>,
                                        <<Ident(p \o <<i + 1, 0, 1>>, "x"),
                                          IF i % 2 = 1 THEN children[i] ELSE NoneNode>>)])>>)
              [] variant = "CircuitMemberAccess" ->
                     Node("CircuitMemberAccess", "", <<>>, q,
                          <<child(1), Ident(p \o <<2>>, "x")>>)
              [] variant = "CircuitStaticFunctionAccess" ->
                     Node("CircuitStaticFunctionAccess", "", <<>>, q,
                          <<child(1), Ident(p \o <<2>>, "f")>>)
              [] variant = "Call" ->
                     Node("Call", "", <<>>, q, <<child(1), Vec(children)>>)
    IN  Node("Expression", variant, <<>>, p, <<inner>>)

StatementVariants ==
    <<"Return", "Definition", "Assign", "Conditional", "Iteration", "Console",
      "Expression", "Block">>

ConsoleVariants == <<"Assert", "Debug", "Error", "Log">>
AccessVariants == <<"ArrayRange", "ArrayIndex", "Member", "Tuple">>

RECURSIVE StatementOf(_, _, _, _), BlockOf(_, _, _, _)
StatementOf(v, depth, k, p) ==
    LET variant == IF depth = 0 THEN "Return" ELSE StatementVariants[(v % 8) + 1]
        u == v \div 8
        q == p \o <<0>>
        expr(i) == ExpressionOf((v \div 2) + i - 1, 1, k, p \o <<i>>)
        leaf(i, j) == ExpressionOf(v + j, 0, k, p \o <<i, j>>)
        access(i) ==
            LET a == AccessVariants[((u + i) % 4) + 1]
                r == p \o <<1, i + 1>>
            IN  Node("AssigneeAccess", a, IF a = "Tuple" THEN <<"0">> ELSE <<>>, r,
                     CASE a = "ArrayRange" ->
                            <<IF i % 2 = 1 THEN leaf(1, 10 + i) ELSE NoneNode,
                              IF i % 2 = 0 THEN leaf(1, 20 + i) ELSE NoneNode>>
                       [] a = "ArrayIndex" -> <<leaf(1, 10 + i)>>
                       [] a = "Member" -> <<Ident(r \o <<1>>, "x")>>
                       [] OTHER -> <<>>)
        inner ==
            CASE variant = "Return" -> Node("Return", "", <<>>, q, <<expr(1)>>)
              [] variant = "Definition" ->
                     Node("Definition", "", <<"let">>, q,
                          <<Vec([i \in 1..k |->
                                   Node("VariableName", "", <<"mut">>, p \o <<1, i>>,
                                        <<Ident(p \o <<1, i, 1>>, "x")>>)]),
                            IF u % 2 = 0 THEN TypeOf(u + k, p \o <<2>>) ELSE NoneNode,
                            expr(3)>>)
              [] variant = "Assign" ->
                     Node("Assign", "", <<IF u % 2 = 0 THEN "+" ELSE "=">>, q,
                          <<Node("Assignee", "", <<>>, p \o <<1>>,
                                 <<Ident(p \o <<1, 1>>, "a"),
                                   Vec([i \in 1..k |-> access(i)])>>),
                            expr(2)>>)
              [] variant = "Conditional" ->
                     Node("Conditional", "", <<>>, q,
                          <<expr(1), BlockOf(v, depth - 1, k, p \o <<2>>),
                            IF u % 2 = 0
                            THEN StatementOf(v + 3, depth - 1, k, p \o <<3>>)
                            ELSE NoneNode>>)
              [] variant = "Iteration" ->
                     Node("Iteration", "", <<>>, q,
                          <<Ident(p \o <<1>>, "i"), leaf(2, 0), leaf(3, 1),
                            BlockOf(v, depth - 1, k, p \o <<4>>)>>)
              [] variant = "Console" ->
                     LET c == ConsoleVariants[(u % 4) + 1]
                     IN  Node("Console", "", <<>>, q,
                              <<Node("ConsoleFunction", c, <<>>, p \o <<1>>,
                                     IF c = "Assert" THEN <<leaf(1, 1)>>
                                     ELSE <<Node("FormatString", "", <<"{}", "!">>,
                                                 p \o <<1, 0>>,
                                                 <<Vec([i \in 1..k |->
                                                          leaf(1, i)])>>)>>)>>)
              [] variant = "Expression" ->
                     Node("ExpressionStatement", "", <<>>, q, <<expr(1)>>)
              [] variant = "Block" -> BlockOf(v, depth - 1, k, p \o <<1>>)
    IN  Node("Statement", variant, <<>>, p, <<inner>>)

\* A function body (depth 1) has k statements; a nested block one return.
BlockOf(v, depth, k, p) ==
    Node("Block", "", <<>>, p,
         <<Vec([i \in 1..(IF depth = 0 THEN 1 ELSE k) |->
                  StatementOf(v + i - 1, depth, k, p \o <<i>>)])>>)

FunctionInputOf(v, p) ==
    IF v % 2 = 0
    THEN Node("FunctionInput", "Variable", <<>>, p,
              <<Node("FunctionInputVariable", "", <<"const">>, p \o <<1>>,
                     <<Ident(p \o <<1, 1>>, "a"), TypeOf(v \div 2, p \o <<1, 2>>)>>)>>)
    ELSE Node("FunctionInput", "SelfKeyword", <<"self">>, p, <<>>)

FunctionOf(v, k, p, name) ==
    Node("Function", "", <<>>, p,
         <<Ident(p \o <<1>>, name),
           Vec([i \in 1..k |->
                  Node("Annotation", "", <<"arguments">>, p \o <<2, i>>,
                       <<Ident(p \o <<2, i, 1>>, "test")>>)]),
           Vec([i \in 1..k |-> FunctionInputOf(v + i - 1, p \o <<3, i>>)]),
           IF (v \div 2) % 2 = 0 THEN TypeOf(v \div 4, p \o <<4>>) ELSE NoneNode,
           BlockOf(v, 1, k, p \o <<5>>)>>)

ImportOf(v, p) ==
    Node("ImportStatement", "", <<>>, p,
         <<Node("PackageOrPackages", IF v % 2 = 0 THEN "Package" ELSE "Packages",
                <<>>, p \o <<1>>,
                <<Node(IF v % 2 = 0 THEN "Package" ELSE "Packages", "",
                       <<"access">>, p \o <<1, 1>>,
                       <<Ident(p \o <<1, 1, 1>>, "std")>>)>>)>>)

\* A function as it is written inside the circuit Foo: the type Foo is
\* written `Self`, and the expressions refer to `x`, the name of the circuit's
\* variable (when it has one).
RECURSIVE InCircuit(_)
InCircuit(node) ==
    IF node.kind = "Type" /\ node.variant = "Circuit"
    THEN Node("Type", "SelfType", <<>>, node.id, <<>>)
    ELSE IF node.kind = "Expression" /\ node.variant = "Identifier"
    THEN [node EXCEPT !.kids = <<Ident(node.kids[1].id, "x")>>]
    ELSE [node EXCEPT !.kids = [i \in 1..Len(node.kids) |-> InCircuit(node.kids[i])]]

\* The members of a circuit are, in turn, a function and a variable.
CircuitMemberOf(j, v, k, p) ==
    IF j % 2 = 1
    THEN Node("CircuitMember", "CircuitFunction", <<>>, p,
              <<InCircuit(FunctionOf(v + j - 1, k, p \o <<1>>, "method"))>>)
    ELSE Node("CircuitMember", "CircuitVariable", <<>>, p,
              <<Ident(p \o <<1>>, "x"), TypeOf(v \div 2, p \o <<2>>)>>)

CircuitOf(v, k, p) ==
    Node("Circuit", "", <<>>, p,
         <<Ident(p \o <<1>>, "Foo"),
           Vec([j \in 1..k |-> CircuitMemberOf(j, v, k, p \o <<2, j>>)])>>)

Names == <<"A", "B", "C", "D">>

Program(k, v) ==
    Node("Program", "", <<"name">>, <<1>>,
         <<Vec([i \in 1..k |-> FunctionInputOf(v + i - 1, <<1, 1, i>>)]),
           Vec([i \in 1..k |-> ImportOf(v + i - 1, <<1, 2, i>>)]),
           Node("IndexMap", "", <<>>, <<>>,
                [i \in 1..k |->
                   Entry(Ident(<<1, 3, i, 0>>, Names[i]),
                         CircuitOf(4 * v + 2 * (k + i - 1), k, <<1, 3, i>>))]),
           Node("IndexMap", "", <<>>, <<>>,
                [i \in 1..k |->
                   Entry(Ident(<<1, 4, i, 0>>, Names[i]),
                         FunctionOf(4 * v + 2 * (i - 1), k, <<1, 4, i>>,
                                    Names[i]))])>>)

Programs == {Program(k, v) : k \in 0..MaxLen, v \in 0..MaxVariant}

HookNames ==
    {"reduce_type", "reduce_expression", "reduce_identifier", "reduce_group_tuple",
     "reduce_group_value", "reduce_value", "reduce_binary", "reduce_unary",
     "reduce_ternary", "reduce_cast", "reduce_array_inline", "reduce_array_init",
     "reduce_array_access", "reduce_array_range_access", "reduce_tuple_init",
     "reduce_tuple_access", "reduce_circuit_implied_variable_definition",
     "reduce_circuit_init", "reduce_circuit_member_access",
     "reduce_circuit_static_fn_access", "reduce_call", "reduce_statement",
     "reduce_return", "reduce_variable_name", "reduce_definition",
     "reduce_assignee_access", "reduce_assignee", "reduce_assign",
     "reduce_conditional", "reduce_iteration", "reduce_console",
     "reduce_expression_statement", "reduce_block", "reduce_program",
     "reduce_function_input_variable", "reduce_function_input",
     "reduce_package_or_packages", "reduce_import", "reduce_circuit_member",
     "reduce_circuit", "reduce_annotation", "reduce_function"}

MaxFailAt == 200
MaxRuns == 2

Reducers ==
    {Reducer("identity", 0, ""), Reducer("canonicalize", 0, "")}
        \cup {Reducer("fail", n, "") : n \in 1..MaxFailAt}
        \cup {Reducer("rewrite", 0, h) : h \in HookNames}

(***************************************************************************)
(* The director specification: a fresh director, then reduce_program on    *)
(* the program, up to MaxRuns times on the same director.                  *)
(***************************************************************************)
NoResult == [ok |-> FALSE, err |-> 0, val |-> NoneNode]

DInit ==
    /\ director \in {Director(r) : r \in Reducers}
    /\ program \in Programs
    /\ result = NoResult
    /\ runs = 0
    /\ lhs = <<>> /\ rhs = <<>> /\ op = "none" /\ out = <<>>
    /\ integers = <<>> /\ cs1 = <<>> /\ cs2 = <<>> /\ invoked = <<>> /\ returned = <<>> /\ calls = 0
    /\ dump = <<>> /\ cli = <<>> /\ test = <<>>

\* The director and the Result as the call r left them.
Returned(r) ==
    /\ director' = [reducer |-> r.reducer, in_circuit |-> r.in_circuit,
                    log |-> r.log]
    /\ result' = [ok |-> r.ok, err |-> r.err, val |-> r.val]

\* director.reduce_program(&program) on the director as it stands.
ReduceProgram ==
    /\ runs < MaxRuns
    /\ Returned(reduce_program([director EXCEPT !.log = <<>>], program))
    /\ runs' = runs + 1
    /\ UNCHANGED program
    /\ UNCHANGED gvars
    /\ UNCHANGED ivars
    /\ UNCHANGED toolvars

\* self.ast = director.reduce_program(&self.ast)?
Replaced(r) ==
    /\ r.ok
    /\ Returned(r)
    /\ program' = r.val

\* ast.canonicalize(): reduce_program under the Canonicalizer on a director
\* of its own; the reduced program replaces the ast.
Canonicalize ==
    /\ runs < MaxRuns
    /\ director.reducer.mode = "canonicalize"
    /\ Replaced(reduce_program(Director(director.reducer), program))
    /\ runs' = runs + 1
    /\ UNCHANGED gvars
    /\ UNCHANGED ivars
    /\ UNCHANGED toolvars

DNext == ReduceProgram \/ Canonicalize

SpecDirector == DInit /\ [][DNext]_vars


(***************************************************************************)
(* Reading a traversal's log.  The director calls one hook for every node  *)
(* of a hooked kind; the other kinds (Vec, IndexMap, Entry, None and the   *)
(* enum payloads SpreadOrExpression, ConsoleFunction, FormatString,        *)
(* Package, Packages) are rebuilt in place.                                *)
(***************************************************************************)
Log == director.log
Events == 1..Len(Log)
Ran == runs > 0

HookedKinds ==
    {"Identifier", "GroupTuple", "GroupValue", "Value", "Type", "Expression",
     "Binary", "Unary", "Ternary", "Cast", "ArrayInline", "ArrayInit",
     "ArrayAccess", "ArrayRangeAccess", "TupleInit", "TupleAccess",
     "CircuitImpliedVariableDefinition", "CircuitInit", "CircuitMemberAccess",
     "CircuitStaticFunctionAccess", "Call", "Statement", "Return", "VariableName",
     "Definition", "AssigneeAccess", "Assignee", "Assign", "Conditional",
     "Iteration", "Console", "ExpressionStatement", "Block", "Program",
     "FunctionInputVariable", "FunctionInput", "PackageOrPackages",
     "ImportStatement", "CircuitMember", "Circuit", "Annotation", "Function"}

Hooked(n) == n.kind \in HookedKinds

\* The number of hooked nodes in the tree n, and in the trees of a sequence.
RECURSIVE Hooks(_), HooksOfAll(_)
Hooks(n) == (IF Hooked(n) THEN 1 ELSE 0) + HooksOfAll(n.kids)
HooksOfAll(nodes) ==
    IF nodes = <<>> THEN 0 ELSE Hooks(Head(nodes)) + HooksOfAll(Tail(nodes))

\* When the hooks of the trees `nodes` are called tree after tree, in the
\* sequence's order and each tree's root last, and the last of these calls is
\* call number `last`, the root of nodes[i] is call number EndOf(nodes, i, last).
EndOf(nodes, i, last) == last - HooksOfAll(SubSeq(nodes, i + 1, Len(nodes)))

\* Every hooked node nearest below `nodes` had its hook called, and return
\* Ok, at that place: the subtrees were reduced one after the other in the
\* sequence's order, all before call number last + 1.
RECURSIVE ChildrenReturned(_, _)
ChildrenReturned(nodes, last) ==
    \A i \in 1..Len(nodes) :
        LET k == nodes[i]
            e == EndOf(nodes, i, last)
        IN  IF Hooked(k)
            THEN e \in Events /\ Log[e].orig = k /\ Log[e].ok
            ELSE ChildrenReturned(k.kids, e)

RECURSIVE InsertAll(_, _)
InsertAll(entries, acc) ==
    IF entries = <<>> THEN acc
    ELSE InsertAll(Tail(entries),
                   IndexMap_insert(acc, Head(entries).kids[1], Head(entries).kids[2]))

\* The tree k with every nearest hooked node replaced by what its hook
\* returned; a map's entries are inserted under their reduced keys.
RECURSIVE Reduced(_, _)
Reduced(k, last) ==
    IF Hooked(k) THEN Log[last].ret
    ELSE LET kids == [i \in 1..Len(k.kids) |->
                         Reduced(k.kids[i], EndOf(k.kids, i, last))]
         IN  [k EXCEPT !.kids = IF k.kind = "IndexMap" THEN InsertAll(kids, <<>>)
                                 ELSE kids]

\* The tentative node of call n: the original with its reduced children.
Tentative(n) ==
    LET orig == Log[n].orig
    IN  [orig EXCEPT !.kids = [i \in 1..Len(orig.kids) |->
                                  Reduced(orig.kids[i],
                                          EndOf(orig.kids, i, n - 1))]]

\* A node that a rewriting hook made up, or a part of one.
FromHookResult(node) == node.id # <<>> /\ node.id[1] = 0

(***************************************************************************)
(* C5.  For every node the director visits, the node's hook is called only *)
(* after the hooks of all its children have returned; it receives the      *)
(* original node and the node rebuilt from what the children's hooks       *)
(* returned (a hook's result is taken over as it is); and no node of a     *)
(* hook's result is ever visited.                                          *)
(***************************************************************************)
C5_HookAfterChildren ==
    Ran => \A n \in Events :
              /\ ChildrenReturned(Log[n].orig.kids, n - 1)
              /\ Log[n].new = Tentative(n)
              /\ ~FromHookResult(Log[n].orig)

\* reduce_binary returned a node of its own, and the enclosing expression's
\* hook then received a tentative node holding exactly that node.
C5_Witness ==
    /\ Ran
    /\ director.reducer.mode = "rewrite"
    /\ director.reducer.hook = "reduce_binary"
    /\ \E n \in Events :
          /\ n < Len(Log)
          /\ Log[n].hook = "reduce_binary"
          /\ Log[n].ret # Log[n].new
          /\ Log[n + 1].hook = "reduce_expression"
          /\ Log[n + 1].new.kids = <<Log[n].ret>>
          /\ Log[n + 1].orig.kids[1].kids # <<>>


(***************************************************************************)
(* C6.  During reduce_program on a freshly created director, the           *)
(* in_circuit value a hook receives is TRUE exactly when the node reduced  *)
(* lies inside a circuit member, and FALSE for every node outside circuit  *)
(* members.  (A node's id is its path, so a node lies inside a member      *)
(* exactly when the member's id is a proper prefix of its id.)             *)
(***************************************************************************)
IsProperPrefix(p, q) == Len(p) < Len(q) /\ SubSeq(q, 1, Len(p)) = p

InsideCircuitMember(node) ==
    LET circuits == program.kids[3].kids
    IN  \E i \in 1..Len(circuits) :
            \E j \in 1..Len(circuits[i].kids[2].kids[2].kids) :
                IsProperPrefix(circuits[i].kids[2].kids[2].kids[j].id, node.id)

C6_InCircuitExactlyInsideMembers ==
    runs = 1 =>
        \A n \in Events :
            Log[n].has_flag => (Log[n].flag <=> InsideCircuitMember(Log[n].orig))

\* A circuit function's hook received TRUE and a top-level function's FALSE.
C6_Witness ==
    /\ runs = 1
    /\ \E n \in Events :
          Log[n].hook = "reduce_function" /\ Log[n].flag
              /\ InsideCircuitMember(Log[n].orig)
    /\ \E n \in Events :
          Log[n].hook = "reduce_function" /\ ~Log[n].flag
              /\ ~InsideCircuitMember(Log[n].orig)

(***************************************************************************)
(* C7.  As claimed: every hook the director calls receives the director's  *)
(* current in_circuit flag, for every node kind.                           *)
(***************************************************************************)
C7_EveryHookReceivesFlag ==
    Ran => \A n \in Events :
              Log[n].has_flag /\ Log[n].flag = Log[n].in_circuit

\* The hooks whose signature has no in_circuit parameter.
PlainHooks ==
    {"reduce_identifier", "reduce_group_tuple", "reduce_group_value",
     "reduce_value", "reduce_variable_name", "reduce_program",
     "reduce_package_or_packages", "reduce_import", "reduce_circuit_member",
     "reduce_circuit", "reduce_annotation"}

(***************************************************************************)
(* C7, amended.  Every hook the director calls receives the director's     *)
(* current in_circuit flag, except the hooks for identifiers, group        *)
(* tuples, group values, values, variable names, annotations, packages,    *)
(* imports, circuit members, circuits and the program, which take no       *)
(* in_circuit argument.                                                    *)
(***************************************************************************)
C7_FlaggedHooksReceiveFlag ==
    Ran => \A n \in Events :
              IF Log[n].hook \in PlainHooks
              THEN ~Log[n].has_flag
              ELSE Log[n].has_flag /\ Log[n].flag = Log[n].in_circuit

\* A type inside a circuit member: reduce_type received TRUE, and the
\* member's hook, called after it, received no flag.
C7_Witness ==
    /\ Ran
    /\ \E n \in Events :
          Log[n].hook = "reduce_type" /\ Log[n].has_flag /\ Log[n].flag
              /\ Log[n].in_circuit
    /\ \E n \in Events :
          Log[n].hook = "reduce_circuit_member" /\ ~Log[n].has_flag


(***************************************************************************)
(* Containers.  A container of a node is a Vec or IndexMap field, reached  *)
(* through the parts that have no hook of their own.  ContainersOf(n) is   *)
(* the set of <<container, rebuilt container, last>>, `last` the number    *)
(* of the last hook call made for the container's elements.                *)
(***************************************************************************)
IsContainer(k) == k.kind \in {"Vec", "IndexMap"}

RECURSIVE ContainersIn(_, _, _)
ContainersIn(origs, news, last) ==
    UNION {LET k == origs[i]
               e == EndOf(origs, i, last)
           IN  IF Hooked(k) \/ ~IsSome(k) THEN {}
               ELSE IF IsContainer(k) THEN {<<k, news[i], e>>}
               ELSE ContainersIn(k.kids, news[i].kids, e) :
           i \in 1..Len(origs)}

ContainersOf(n) == ContainersIn(Log[n].orig.kids, Log[n].new.kids, n - 1)

\* The elements of container k, each reduced, in k's order.
ReducedElements(k, last) ==
    [j \in 1..Len(k.kids) |-> Reduced(k.kids[j], EndOf(k.kids, j, last))]

DistinctKeys(entries) ==
    \A i, j \in 1..Len(entries) :
        entries[i].kids[1] = entries[j].kids[1] => i = j

(***************************************************************************)
(* C8.  As claimed: for every ordered container of a program, the director *)
(* reduces the elements in declaration order and the container it hands to *)
(* the hook holds the reduced elements in the same key/position sequence   *)
(* as the input, with the same number of entries.                          *)
(***************************************************************************)
C8_ContainersKeepOrderAndSize ==
    Ran => \A n \in Events :
              \A c \in ContainersOf(n) :
                  /\ ChildrenReturned(c[1].kids, c[3])
                  /\ Len(c[2].kids) = Len(c[1].kids)
                  /\ c[2].kids = ReducedElements(c[1], c[3])

(***************************************************************************)
(* C8, amended.  The director reduces the elements of every ordered        *)
(* container in declaration order.  A vector handed to the hook holds the  *)
(* reduced elements at the same positions, with the same number of         *)
(* entries; so does a map (circuits, functions) whenever the reduced keys  *)
(* are pairwise distinct.  Entries of a map whose reduced keys are equal   *)
(* are merged into one entry, so the map then has fewer entries.           *)
(***************************************************************************)
C8_ContainersKeepOrder ==
    Ran => \A n \in Events :
              \A c \in ContainersOf(n) :
                  LET reduced == ReducedElements(c[1], c[3])
                  IN  /\ ChildrenReturned(c[1].kids, c[3])
                      /\ IF c[1].kind = "Vec" \/ DistinctKeys(reduced)
                         THEN c[2].kids = reduced
                         ELSE Len(c[2].kids) < Len(c[1].kids)

\* A program of two circuits with two members each went through: both
\* containers arrived with two entries, in the input's order.
C8_Witness ==
    /\ Ran /\ result.ok
    /\ director.reducer.mode = "rewrite"
    /\ director.reducer.hook = "reduce_circuit_member"
    /\ LET last == Log[Len(Log)]
           circuits == last.new.kids[3].kids
       IN  /\ last.hook = "reduce_program"
           /\ Len(last.orig.kids[3].kids) = 2
           /\ Len(circuits) = 2
           /\ circuits[1].kids[1].data = <<"A">>
           /\ circuits[2].kids[1].data = <<"B">>
           /\ Len(circuits[1].kids[2].kids[2].kids) = 2

(***************************************************************************)
(* C9.  If any hook returns an error during a traversal, no hook is called *)
(* after it and reduce_program returns that same error.                    *)
(***************************************************************************)
C9_FirstErrorAborts ==
    Ran => \A n \in Events :
              ~Log[n].ok => /\ n = Len(Log)
                            /\ ~result.ok
                            /\ result.err = n

\* The hook of a statement inside a block failed, some hooks having
\* returned before it, and the error came out of reduce_program.
C9_Witness ==
    /\ Ran
    /\ director.reducer.mode = "fail"
    /\ Len(Log) > 1
    /\ Log[Len(Log)].hook = "reduce_statement"
    /\ ~Log[Len(Log)].ok
    /\ ~result.ok
    /\ result.err = director.reducer.at

(***************************************************************************)
(* C10.  Canonicalization is idempotent: canonicalizing a program that is  *)
(* itself the result of canonicalization returns the same program.         *)
(***************************************************************************)
Canonical ==
    /\ runs > 0
    /\ director.reducer.mode = "canonicalize"
    /\ result.ok
    /\ program = result.val

C10_CanonicalizeIdempotent ==
    [][(Canonical /\ runs' = runs + 1) => (result'.ok /\ result'.val = program)]_vars

\* The nodes of a tree.
RECURSIVE NodesOf(_)
NodesOf(node) ==
    {node} \cup UNION {NodesOf(node.kids[i]) : i \in 1..Len(node.kids)}

\* A program with a compound assignment, with `Self` in a circuit and with
\* a bare reference to a circuit variable was canonicalized, which changed
\* it (the assignment is plain, no `Self` is left, the reference has the
\* receiver `self`), and canonicalized again.
C10_Witness ==
    /\ runs = 2
    /\ Canonical
    /\ Log[Len(Log)].orig = program
    /\ program \notin Programs
    /\ \E n \in NodesOf(program) :
           /\ n.kind = "Assign" /\ n.data = <<"=">>
           /\ n.kids[2].variant = "Binary" /\ n.kids[2].id = n.id
    /\ \A n \in NodesOf(program) : ~(n.kind = "Type" /\ n.variant = "SelfType")
    /\ \E n \in NodesOf(program) :
           /\ n.kind = "Type" /\ n.variant = "Circuit"
           /\ n.kids[1].id = program.kids[3].kids[1].kids[2].kids[1].id
    /\ \E n \in NodesOf(program) :
           /\ n.kind = "CircuitMemberAccess"
           /\ n.kids[1].variant = "Identifier"
           /\ n.kids[1].kids[1] = Ident(n.id, "self")
           /\ n.kids[2].data = <<"x">>

(***************************************************************************)
(* The Integer value domain (compiler/src/value/integer/integer.rs).       *)
(* A string is the sequence of its characters' Unicode scalar values, so   *)
(* that formatting and parsing are computed character by character.        *)
(***************************************************************************)

\* The ten kinds.
Kinds == {"u8", "u16", "u32", "u64", "u128", "i8", "i16", "i32", "i64", "i128"}
UnsignedKinds == {"u8", "u16", "u32", "u64", "u128"}
SignedKinds == {"i8", "i16", "i32", "i64", "i128"}

\* The digits of a literal, as characters ('0' is 48).
Digits(ds) == [i \in 1..Len(ds) |-> 48 + ds[i]]

\* "{}" of a non-negative machine integer.
RECURSIVE Decimal(_)
Decimal(n) ==
    IF n < 10 THEN <<48 + n>> ELSE Decimal(n \div 10) \o <<48 + (n % 10)>>

\* "{}" of a machine integer: i8::to_string and friends.
to_string(n) == IF n < 0 THEN <<45>> \o Decimal(-n) ELSE Decimal(n)

\* The kind's name as "{}" prints it.
IntegerType_fmt(kind) ==
    CASE kind = "u8" -> <<117, 56>>
      [] kind = "u16" -> <<117, 49, 54>>
      [] kind = "u32" -> <<117, 51, 50>>
      [] kind = "u64" -> <<117, 54, 52>>
      [] kind = "u128" -> <<117, 49, 50, 56>>
      [] kind = "i8" -> <<105, 56>>
      [] kind = "i16" -> <<105, 49, 54>>
      [] kind = "i32" -> <<105, 51, 50>>
      [] kind = "i64" -> <<105, 54, 52>>
      [] kind = "i128" -> <<105, 49, 50, 56>>

\* The largest magnitude of a kind on the non-negative side (T::MAX) and,
\* for signed kinds, on the negative side (|T::MIN|), as decimal digits.
MaxDigits(kind) ==
    CASE kind = "u8" -> <<2, 5, 5>>
      [] kind = "u16" -> <<6, 5, 5, 3, 5>>
      [] kind = "u32" -> <<4, 2, 9, 4, 9, 6, 7, 2, 9, 5>>
      [] kind = "u64" -> <<1, 8, 4, 4, 6, 7, 4, 4, 0, 7, 3, 7, 0, 9, 5, 5, 1, 6, 1, 5>>
      [] kind = "u128" -> <<3, 4, 0, 2, 8, 2, 3, 6, 6, 9, 2, 0, 9, 3, 8, 4, 6, 3, 4, 6,
                            3, 3, 7, 4, 6, 0, 7, 4, 3, 1, 7, 6, 8, 2, 1, 1, 4, 5, 5>>
      [] kind = "i8" -> <<1, 2, 7>>
      [] kind = "i16" -> <<3, 2, 7, 6, 7>>
      [] kind = "i32" -> <<2, 1, 4, 7, 4, 8, 3, 6, 4, 7>>
      [] kind = "i64" -> <<9, 2, 2, 3, 3, 7, 2, 0, 3, 6, 8, 5, 4, 7, 7, 5, 8, 0, 7>>
      [] kind = "i128" -> <<1, 7, 0, 1, 4, 1, 1, 8, 3, 4, 6, 0, 4, 6, 9, 2, 3, 1, 7, 3,
                            1, 6, 8, 7, 3, 0, 3, 7, 1, 5, 8, 8, 4, 1, 0, 5, 7, 2, 7>>
      [] kind = "usize" -> <<1, 8, 4, 4, 6, 7, 4, 4, 0, 7, 3, 7, 0, 9, 5, 5, 1, 6, 1, 5>>

MinDigits(kind) ==
    CASE kind = "i8" -> <<1, 2, 8>>
      [] kind = "i16" -> <<3, 2, 7, 6, 8>>
      [] kind = "i32" -> <<2, 1, 4, 7, 4, 8, 3, 6, 4, 8>>
      [] kind = "i64" -> <<9, 2, 2, 3, 3, 7, 2, 0, 3, 6, 8, 5, 4, 7, 7, 5, 8, 0, 8>>
      [] kind = "i128" -> <<1, 7, 0, 1, 4, 1, 1, 8, 3, 4, 6, 0, 4, 6, 9, 2, 3, 1, 7, 3,
                            1, 6, 8, 7, 3, 0, 3, 7, 1, 5, 8, 8, 4, 1, 0, 5, 7, 2, 8>>
      [] OTHER -> <<0>>

IsDigit(c) == 48 <= c /\ c <= 57

\* A digit string without its leading zeros ("0" for zero).
RECURSIVE StripZeros(_)
StripZeros(s) ==
    IF Len(s) > 1 /\ s[1] = 48 THEN StripZeros(Tail(s)) ELSE s

\* s <= t for digit strings without leading zeros.
RECURSIVE LexLeq(_, _)
LexLeq(s, t) ==
    IF s = <<>> THEN TRUE
    ELSE IF s[1] # t[1] THEN s[1] < t[1]
    ELSE LexLeq(Tail(s), Tail(t))

DigitsLeq(s, t) ==
    IF Len(s) # Len(t) THEN Len(s) < Len(t) ELSE LexLeq(s, t)

\* str::parse::<T>(): an optional sign ('+' always, '-' for signed T only),
\* then one or more digits, the number within T's range.  The value parsed
\* is kept as T::to_string prints it.
ParseError == [ok |-> FALSE, value |-> <<>>]
Parsed(v) == [ok |-> TRUE, value |-> v]

parse_digits(kind, negative, digits) ==
    IF digits = <<>> \/ \E i \in 1..Len(digits) : ~IsDigit(digits[i])
    THEN ParseError
    ELSE LET magnitude == StripZeros(digits)
             limit == Digits(IF negative THEN MinDigits(kind) ELSE MaxDigits(kind))
         IN  IF ~DigitsLeq(magnitude, limit) THEN ParseError
             ELSE IF negative /\ magnitude # <<48>> THEN Parsed(<<45>> \o magnitude)
             ELSE Parsed(magnitude)

parse(kind, s) ==
    IF s = <<>> THEN ParseError
    ELSE IF s[1] = 43 THEN parse_digits(kind, FALSE, Tail(s))
    ELSE IF s[1] = 45 /\ kind \in SignedKinds THEN parse_digits(kind, TRUE, Tail(s))
    ELSE parse_digits(kind, FALSE, s)

\* The machine integer a short decimal string stands for.
RECURSIVE DigitsValue(_, _)
DigitsValue(s, acc) ==
    IF s = <<>> THEN acc ELSE DigitsValue(Tail(s), 10 * acc + (s[1] - 48))

from_string(s) ==
    IF s[1] = 45 THEN -DigitsValue(Tail(s), 0) ELSE DigitsValue(s, 0)

\* An Integer: its kind, the value its gadget tracks (get_value(): the
\* decimal string, or None while the value is unknown) and whether its bits
\* are constants or allocated variables.
None == <<>>
Integer(kind, value, c) == [kind |-> kind, value |-> value, const |-> c]
NoInteger == Integer("none", None, FALSE)

Span(line_start, col_start) == [line_start |-> line_start, col_start |-> col_start]

\* IntegerError and SynthesisError values; a field an error does not carry
\* is empty.
\* (value: the string an error quotes; cause: the gadget error it wraps.)
IntegerError(error, value, cause, span) ==
    [error |-> error, value |-> value, cause |-> cause, span |-> span]
NoError == IntegerError("none", <<>>, "", Span(0, 0))
invalid_integer(value, span) == IntegerError("InvalidInteger", value, "", span)
invalid_index(span) == IntegerError("InvalidIndex", <<>>, "", span)
missing_integer(name, span) == IntegerError("MissingInteger", name, "", span)
negate_operation(span) == IntegerError("NegateOperation", <<>>, "", span)
binary_operation(operation, span) ==
    IntegerError("BinaryOperation", operation, "", span)
signed(e, span) == IntegerError("SignedIntegerError", <<>>, e, span)
synthesis(e, span) == IntegerError("SynthesisError", <<>>, e, span)
Unsatisfiable == IntegerError("Unsatisfiable", <<>>, "", Span(0, 0))

\* What a call hands back: Ok(val), Err(err), or a panic that unwinds out of
\* the call (no value reaches the caller).
Return_Ok(val) == [how |-> "Ok", val |-> val, err |-> NoError]
Return_Err(err) == [how |-> "Err", val |-> NoInteger, err |-> err]
Return_Panic(err) == [how |-> "panic", val |-> NoInteger, err |-> err]
NoReturn == [how |-> "none", val |-> NoInteger, err |-> NoError]

\* Integer::new: wrap a constant.
Integer_new(kind, n) == Integer(kind, to_string(n), TRUE)

get_value(integer) == integer.value
get_type(integer) == integer.kind

\* impl Display for Integer: the value, or "[input]" and the kind.
Integer_fmt(integer) ==
    IF get_value(integer) # None THEN get_value(integer)
    ELSE <<91, 105, 110, 112, 117, 116, 93>> \o IntegerType_fmt(get_type(integer))

\* "enforce "
enforce == <<101, 110, 102, 111, 114, 99, 101, 32>>

\* format!("{}:{}", span.line_start, span.col_start)
Span_fmt(span) == Decimal(span.line_start) \o <<58>> \o Decimal(span.col_start)

\* format!("enforce -{} {}:{}", self, span.line_start, span.col_start)
negate_namespace(self, span) ==
    enforce \o <<45>> \o Integer_fmt(self) \o <<32>> \o Span_fmt(span)

\* format!("enforce {} <operator> {} {}:{}", self, other, span.line_start,
\* span.col_start)
unique_namespace(operator, self, other, span) ==
    enforce \o Integer_fmt(self) \o <<32>> \o operator \o <<32>>
        \o Integer_fmt(other) \o <<32>> \o Span_fmt(span)

(***************************************************************************)
(* The constraint system, as far as the Integer can tell: the namespaces   *)
(* opened on it, in order.  A namespace is the label the Integer gave it   *)
(* and, in order, the names of the namespaces the gadget opened inside it  *)
(* ("shift_left_3" is <<"shift_left", 3>>).                                *)
(***************************************************************************)
Namespace(name, inner) == [name |-> name, inner |-> inner]

\* system: which constraint system this is (the first or the second run's);
\* assigns: whether it evaluates the assignment of a variable it allocates.
ConstraintSystem(system) ==
    [system |-> system, assigns |-> TRUE, namespaces |-> <<>>]

\* cs.ns(|| name) at the Integer's level.
ns_Numbered(cs, name) ==
    [cs EXCEPT !.namespaces =
        Append(@, Namespace(name \o Decimal(cs.system), <<>>))]

ns(cs, name) == [cs EXCEPT !.namespaces = Append(@, Namespace(name, <<>>))]

\* The namespaces a gadget opens inside the namespace it was handed (the
\* last one opened).
ns_inner(cs, names) ==
    [cs EXCEPT !.namespaces[Len(cs.namespaces)].inner = @ \o names]

\* sub_int_impl::sub: "negate", then "add_complement" unless the negation
\* failed.
sub_namespaces(other_neg_ok) ==
    IF other_neg_ok THEN <<(<<"negate", 0>>), (<<"add_complement", 0>>)>>
    ELSE <<(<<"negate", 0>>)>>

\* div_int_impl::div: nothing when the divisor is zero, else the names
\* before the loop, seven for each i in 1 .. SIZE - 1, and the names after.
div_names_before ==
    <<"true", "constant_or_allocated_true", "one", "constant_or_allocated_1",
      "zero", "constant_or_allocated_0", "other_min_check", "self_min_check",
      "both_min", "allocated_one", "a_valid", "a_set", "b_set", "compare_msb",
      "a_neg", "a_abs", "b_neg", "b_abs">>

div_names_loop ==
    <<"shift_left", "set_remainder_bit", "increment_or_remainder",
      "compare_remainder", "subtract_divisor", "subtract_or_same",
      "set_bit_or_same">>

div_names_after ==
    <<"negate", "positive or negative", "fraction", "one_result",
      "self_or_quotient">>

div_namespaces(size) ==
    [k \in 1..Len(div_names_before) |-> <<div_names_before[k], 0>>]
    \o [k \in 1..(7 * (size - 1)) |->
           <<div_names_loop[((k - 1) % 7) + 1], ((k - 1) \div 7) + 1>>]
    \o [k \in 1..Len(div_names_after) |-> <<div_names_after[k], 0>>]

(***************************************************************************)
(* The namespaces one div call opens on the constraint system it is        *)
(* handed, read off the call's record o: a `?` that returns early ends     *)
(* the sequence at the namespace opened last.                              *)
(***************************************************************************)

\* The loop's names carry no index.
loop_name_Unnumbered(name, i) == <<name, 0>>

\* format!("shift_left_{}", i) and the like
loop_name(name, i) == <<name, i>>

\* The names of one iteration: shift_left_i fails when R + R overflows,
\* set_remainder_bit_i when R + 1 does, subtract_divisor_i when R - b does.
div_opened_iteration(it) ==
    LET last == IF ~it.r_shift.ok THEN 1
                ELSE IF ~it.r_new.ok THEN 2
                ELSE IF ~it.sub.ok THEN 5
                ELSE Len(div_names_loop)
    IN  [k \in 1..last |-> loop_name(div_names_loop[k], it.i)]

RECURSIVE div_opened_loop(_)
div_opened_loop(trace) ==
    IF trace = <<>> THEN <<>>
    ELSE div_opened_iteration(Head(trace)) \o div_opened_loop(Tail(trace))

\* Before the loop the negation of allocated_one ("allocated_one"), a_valid?
\* (an argument of the a_set select, evaluated after cs.ns(|| "a_set")),
\* a_set.neg ("a_neg") and b_set.neg ("b_neg") can return early; after it,
\* q.neg ("negate").
div_opened(o) ==
    IF o.zero_check THEN <<>>
    ELSE LET last == IF ~o.pre[1].ok THEN 10
                     ELSE IF ~o.pre[2].ok THEN 12
                     ELSE IF ~o.pre[3].ok THEN 15
                     ELSE IF ~o.pre[4].ok THEN 17
                     ELSE Len(div_names_before)
             before == [k \in 1..last |-> <<div_names_before[k], 0>>]
             after == [k \in 1..(IF o.q_neg.ok THEN Len(div_names_after) ELSE 1)
                          |-> <<div_names_after[k], 0>>]
         IN  IF last < Len(div_names_before) THEN before
             ELSE IF o.q_loop.ok
             THEN before \o div_opened_loop(o.trace) \o after
             ELSE before \o div_opened_loop(o.trace)

(***************************************************************************)
(* The kind-specific gadgets behind an Integer.  The signed kinds' sub and *)
(* div run the gadgets modelled above at the kind's width; the library's   *)
(* gadgets return the native result, or the gadget's overflow or           *)
(* division-by-zero error.  An operand whose value is unknown yields a     *)
(* result whose value is unknown.                                          *)
(***************************************************************************)
SizeOf(kind) ==
    CASE kind \in {"u8", "i8"} -> 8
      [] kind \in {"u16", "i16"} -> 16
      [] kind \in {"u32", "i32"} -> 32
      [] kind \in {"u64", "i64"} -> 64
      [] kind \in {"u128", "i128"} -> 128

\* Whether the machine integer v is a value of the kind.  The unsigned kinds
\* of 32 bits and more, and the signed ones of more than MaxSize bits, hold
\* every magnitude MaxMagnitude lets an operation reach.
InKindRange(kind, v) ==
    IF kind \in UnsignedKinds
    THEN v >= 0 /\ (SizeOf(kind) <= 16 => v < 2 ^ SizeOf(kind))
    ELSE SizeOf(kind) <= MaxSize => InRangeOf(SizeOf(kind), v)

\* IntegerType::MIN of a signed kind, as Integer carries a value.
MinValue(kind) == <<45>> \o Digits(MinDigits(kind))

RECURSIVE Power(_, _)
Power(x, n) == IF n = 0 THEN 1 ELSE x * Power(x, n - 1)

Gadget_Ok(v, c) == [ok |-> TRUE, err |-> "", known |-> TRUE, value |-> v, const |-> c]
Gadget_Unknown == [ok |-> TRUE, err |-> "", known |-> FALSE, value |-> 0, const |-> FALSE]
Gadget_Err(e) == [ok |-> FALSE, err |-> e, known |-> FALSE, value |-> 0, const |-> FALSE]

Gadget_from(r) == IF r.ok THEN Gadget_Ok(r.value, r.const) ELSE Gadget_Err(r.err)

\* The gadget behind an Integer of a signed kind.
SignedInt_of(integer) ==
    SignedInt(SizeOf(integer.kind), from_string(integer.value), integer.const)

\* The native result of an operation at a kind.
native(operation, kind, x, y, c) ==
    IF operation = "div" /\ y = 0 THEN Gadget_Err("DivisionByZero")
    ELSE LET v == CASE operation = "neg" -> -x
                    [] operation = "add" -> x + y
                    [] operation = "sub" -> x - y
                    [] operation = "mul" -> x * y
                    [] operation = "div" -> NativeDiv(x, y)
                    [] operation = "pow" -> Power(x, y)
         IN  IF InKindRange(kind, v) THEN Gadget_Ok(v, c) ELSE Gadget_Err("Overflow")

\* A gadget of the library: a.neg, a.add, a.mul, a.pow, and every gadget of an
\* unsigned kind.
library(operation, a, b) ==
    IF a.value = None \/ b.value = None THEN Gadget_Unknown
    ELSE native(operation, a.kind, from_string(a.value), from_string(b.value),
                a.const /\ b.const)

\* The Integer a gadget's result is wrapped into.
Wrap(kind, g) ==
    Integer(kind, IF g.known THEN to_string(g.value) ELSE None, g.const)

\* a.neg(cs): the negation of a signed kind's MIN overflows, at every width.
gadget_neg(a) ==
    IF a.kind \in SignedKinds /\ a.value = MinValue(a.kind)
    THEN Gadget_Err("Overflow")
    ELSE IF a.value # None /\ a.kind \in SignedKinds /\ SizeOf(a.kind) <= MaxSize
    THEN Gadget_from(neg(SignedInt_of(a)))
    ELSE library("neg", a, a)

\* a.add(cs, &b)
gadget_add(a, b) ==
    IF a.value # None /\ b.value # None
           /\ a.kind \in SignedKinds /\ SizeOf(a.kind) <= MaxSize
    THEN Gadget_from(add(SignedInt_of(a), SignedInt_of(b)))
    ELSE library("add", a, b)

\* a.sub(cs, &b): sub_int_impl::sub for the signed kinds, which negates
\* other first, whatever self is, and hands the negation's error on.
gadget_sub(a, b) ==
    IF a.kind \in SignedKinds
    THEN LET other_neg == gadget_neg(b)
         IN  IF ~other_neg.ok THEN other_neg
             ELSE gadget_add(a, Wrap(a.kind, other_neg))
    ELSE library("sub", a, b)

\* a.mul(cs, &b)
gadget_mul(a, b) == library("mul", a, b)

\* a.div(cs, &b): div_int_impl::div for the signed kinds.  The zero check
\* reads the divisor alone; the last step, self_or_quotient, selects under
\* the constant self_is_zero, so a dividend known to be zero is handed back
\* as it is; any other call on an unknown value has an unknown result.
gadget_div(a, b) ==
    IF a.kind \notin SignedKinds THEN library("div", a, b)
    ELSE IF b.value # None /\ from_string(b.value) = 0
    THEN Gadget_Err("DivisionByZero")
    ELSE IF a.value # None /\ from_string(a.value) = 0
    THEN Gadget_Ok(0, a.const)
    ELSE IF a.value = None \/ b.value = None THEN Gadget_Unknown
    ELSE Gadget_from(div(SignedInt_of(a), SignedInt_of(b)).res)

\* a.pow(cs, &b)
gadget_pow(a, b) == library("pow", a, b)

\* The namespaces the gadgets of src/ open inside the one they are handed;
\* the library's gadgets are not followed.
NoNamespaces == <<>>

sub_opens(a, b) ==
    IF a.kind \in SignedKinds THEN sub_namespaces(gadget_neg(b).ok) ELSE NoNamespaces

\* div's names are read off the call where the model runs it; a call on an
\* unknown value, or at a width the model does not run, has no step that
\* returns early and opens every name.
div_opens(a, b) ==
    IF a.kind \notin SignedKinds THEN NoNamespaces
    ELSE IF b.value # None /\ from_string(b.value) = 0 THEN NoNamespaces
    ELSE IF a.value # None /\ b.value # None /\ SizeOf(a.kind) <= MaxSize
    THEN div_opened(div(SignedInt_of(a), SignedInt_of(b)))
    ELSE div_namespaces(SizeOf(a.kind))

(***************************************************************************)
(* The methods of Integer.  Each returns what the caller gets and the      *)
(* constraint system as the call leaves it.                                *)
(***************************************************************************)
Returned_(ret, cs) == [ret |-> ret, cs |-> cs]

\* What a match_..! macro evaluates to: None, or Some(..) or the error `?`
\* returned early, with the constraint system as the gadget left it.
Matched_None(cs) == [none |-> TRUE, ret |-> NoReturn, cs |-> cs]
Matched(ret, cs) == [none |-> FALSE, ret |-> ret, cs |-> cs]

\* result.ok_or_else(|| error)
ok_or_else(matched, error) ==
    IF matched.none THEN Returned_(Return_Err(error), matched.cs)
    ELSE Returned_(matched.ret, matched.cs)

\* match_integers_span!((a, b), span => a.op(cs.ns(|| unique_namespace), &b)):
\* None for two kinds, else the gadget's result g or, by `?`, its error;
\* opens: the namespaces the gadget opened.
match_integers_span(cs, unique_namespace_, a, b, span, g, opens) ==
    IF a.kind # b.kind THEN Matched_None(cs)
    ELSE IF g.ok
    THEN Matched(Return_Ok(Wrap(a.kind, g)), ns_inner(ns(cs, unique_namespace_), opens))
    ELSE Matched(Return_Err(IF a.kind \in SignedKinds THEN signed(g.err, span)
                            ELSE synthesis(g.err, span)),
                 ns_inner(ns(cs, unique_namespace_), opens))

\* match_signed_integer!(a, span => a.neg(cs.ns(|| unique_namespace))):
\* None for an unsigned kind.
match_signed_integer(cs, unique_namespace_, a, span, g) ==
    IF a.kind \notin SignedKinds THEN Matched_None(cs)
    ELSE IF g.ok THEN Matched(Return_Ok(Wrap(a.kind, g)), ns(cs, unique_namespace_))
    ELSE Matched(Return_Err(signed(g.err, span)), ns(cs, unique_namespace_))

\* result.ok_or_else(|| IntegerError::negate_operation(span))  (The _Binary
\* variant reports an unsigned operand as a failed binary "-".)
Integer_negate_Binary(cs, self, span) ==
    ok_or_else(match_signed_integer(cs, negate_namespace(self, span), self, span,
                   gadget_neg(self)),
               binary_operation(<<45>>, span))

Integer_negate(cs, self, span) ==
    ok_or_else(match_signed_integer(cs, negate_namespace(self, span), self, span,
                   gadget_neg(self)),
               negate_operation(span))

Integer_add(cs, self, other, span) ==
    ok_or_else(match_integers_span(cs, unique_namespace(<<43>>, self, other, span),
                   self, other, span, gadget_add(self, other), NoNamespaces),
               binary_operation(<<43>>, span))

Integer_sub(cs, self, other, span) ==
    ok_or_else(match_integers_span(cs, unique_namespace(<<45>>, self, other, span),
                   self, other, span, gadget_sub(self, other), sub_opens(self, other)),
               binary_operation(<<45>>, span))

Integer_mul(cs, self, other, span) ==
    ok_or_else(match_integers_span(cs, unique_namespace(<<42>>, self, other, span),
                   self, other, span, gadget_mul(self, other), NoNamespaces),
               binary_operation(<<42>>, span))

\* The division sign is U+00F7 (the _Slash variant tags the error with "/").
Integer_div_Slash(cs, self, other, span) ==
    ok_or_else(match_integers_span(cs, unique_namespace(<<247>>, self, other, span),
                   self, other, span, gadget_div(self, other), div_opens(self, other)),
               binary_operation(<<47>>, span))

Integer_div(cs, self, other, span) ==
    ok_or_else(match_integers_span(cs, unique_namespace(<<247>>, self, other, span),
                   self, other, span, gadget_div(self, other), div_opens(self, other)),
               binary_operation(<<247>>, span))

Integer_pow(cs, self, other, span) ==
    ok_or_else(match_integers_span(cs, unique_namespace(<<42, 42>>, self, other, span),
                   self, other, span, gadget_pow(self, other), NoNamespaces),
               binary_operation(<<42, 42>>, span))

\* match_unsigned_integer!(integer => integer.get_value()): None for a
\* signed kind.
match_unsigned_integer(unsigned_integer) ==
    IF unsigned_integer.kind \in UnsignedKinds THEN get_value(unsigned_integer)
    ELSE None

\* The native usize as a result value.
Usize(v) == Integer("usize", v, TRUE)

\* value_option.ok_or_else(invalid_index)?, then value.parse::<usize>() with
\* map_err(invalid_integer)?.  (The _Index variant reports both failures as
\* InvalidIndex.)
to_usize_Index(self, span) ==
    IF match_unsigned_integer(self) = None THEN Return_Err(invalid_index(span))
    ELSE IF ~parse("usize", match_unsigned_integer(self)).ok
    THEN Return_Err(invalid_index(span))
    ELSE Return_Ok(Usize(parse("usize", match_unsigned_integer(self)).value))

to_usize(self, span) ==
    IF match_unsigned_integer(self) = None THEN Return_Err(invalid_index(span))
    ELSE IF ~parse("usize", match_unsigned_integer(self)).ok
    THEN Return_Err(invalid_integer(match_unsigned_integer(self), span))
    ELSE Return_Ok(Usize(parse("usize", match_unsigned_integer(self)).value))

\* Option<String>
Some(s) == [some |-> TRUE, s |-> s]
NoneString == [some |-> FALSE, s |-> <<>>]

\* format!("`{}: u8` {}:{}", name, span.line_start, span.col_start)
allocate_namespace(integer_type, name, span) ==
    <<96>> \o name \o <<58, 32>> \o IntegerType_fmt(integer_type) \o <<96, 32>>
        \o Span_fmt(span)

\* format!("{}: u8", name)
allocate_name(integer_type, name) ==
    name \o <<58, 32>> \o IntegerType_fmt(integer_type)

\* UInt8::alloc(cs, || option.ok_or(AssignmentMissing)) and the like: the
\* value when there is one; without one, a constraint system that asks for
\* the assignment fails and one that is only laying out the circuit
\* allocates bits of unknown value.
gadget_alloc(cs, integer_type, value, name, span) ==
    IF value # None THEN Return_Ok(Integer(integer_type, value, FALSE))
    ELSE IF cs.assigns THEN Return_Err(missing_integer(allocate_name(integer_type, name), span))
    ELSE Return_Ok(Integer(integer_type, None, FALSE))

\* option.map(|s| s.parse::<T>().map_err(..).unwrap()): the closure unwraps
\* the Err, so a string that does not parse panics.
allocate_type(cs, integer_type, name, option, span) ==
    IF option.some /\ ~parse(integer_type, option.s).ok
    THEN Returned_(Return_Panic(invalid_integer(option.s, span)), cs)
    ELSE Returned_(gadget_alloc(cs, integer_type,
                       IF option.some THEN parse(integer_type, option.s).value ELSE None,
                       name, span),
                   ns(cs, allocate_namespace(integer_type, name, span)))

\* InputValue: Integer(type, number), or another tag with the string it
\* prints as; Option<InputValue>.
InputValue(tag, type_, number) == [some |-> TRUE, tag |-> tag, type_ |-> type_, number |-> number]
NoInput == [some |-> FALSE, tag |-> "", type_ |-> "", number |-> <<>>]

InputValue_to_string(input) == input.number

from_input(cs, integer_type, name, integer_value, span) ==
    IF integer_value.some /\ integer_value.tag # "Integer"
    THEN Returned_(Return_Err(invalid_integer(InputValue_to_string(integer_value), span)), cs)
    ELSE allocate_type(cs, integer_type, name,
             IF integer_value.some THEN Some(integer_value.number) ELSE NoneString,
             span)

\* match_integers!((a, b) => a.op(cs, b)): None for two kinds.  The result
\* of the library's comparison: known when both values are.
BooleanResult(known, b, c) ==
    Integer("bool", IF ~known THEN None
                    ELSE IF b THEN <<116, 114, 117, 101>>
                    ELSE <<102, 97, 108, 115, 101>>, c)
Unit == Integer("()", None, TRUE)

match_integers(cs, operation, a, b) ==
    IF a.kind # b.kind THEN Matched_None(cs)
    ELSE IF operation = "conditional_enforce_equal" THEN Matched(Return_Ok(Unit), cs)
    ELSE IF a.value = None \/ b.value = None
    THEN Matched(Return_Ok(BooleanResult(FALSE, FALSE, FALSE)), cs)
    ELSE Matched(Return_Ok(BooleanResult(TRUE,
                     IF operation = "evaluate_equal"
                     THEN from_string(a.value) = from_string(b.value)
                     ELSE from_string(a.value) < from_string(b.value),
                     a.const /\ b.const)), cs)

\* result.ok_or(SynthesisError::Unsatisfiable)
Integer_evaluate_equal(cs, self, other) ==
    ok_or_else(match_integers(cs, "evaluate_equal", self, other), Unsatisfiable)

less_than(cs, self, other) ==
    ok_or_else(match_integers(cs, "less_than", self, other), Unsatisfiable)

conditional_enforce_equal(cs, self, other, condition) ==
    ok_or_else(match_integers(cs, "conditional_enforce_equal", self, other),
               Unsatisfiable)

\* CondSelectGadget for Integer: the kinds' own select for one kind, else
\* Unsatisfiable.  The library's select clones the chosen side under a
\* constant condition and allocates the result otherwise.  (The _AnyKinds
\* variant has no `(_, _) => Err(..)` arm.)
Integer_conditionally_select_AnyKinds(cs, cond, first, second) ==
    IF cond.const
    THEN Returned_(Return_Ok(IF cond.value THEN first ELSE second), cs)
    ELSE Returned_(Return_Ok(Integer(first.kind,
                       IF cond.value THEN first.value ELSE second.value, FALSE)), cs)

\* The select with its two values in each other's place.
Integer_conditionally_select_Swapped(cs, cond, first, second) ==
    IF first.kind # second.kind THEN Returned_(Return_Err(Unsatisfiable), cs)
    ELSE IF cond.const
    THEN Returned_(Return_Ok(IF cond.value THEN second ELSE first), cs)
    ELSE Returned_(Return_Ok(Integer(first.kind,
                       IF cond.value THEN second.value ELSE first.value, FALSE)), cs)

Integer_conditionally_select(cs, cond, first, second) ==
    IF first.kind # second.kind THEN Returned_(Return_Err(Unsatisfiable), cs)
    ELSE IF cond.const
    THEN Returned_(Return_Ok(IF cond.value THEN first ELSE second), cs)
    ELSE Returned_(Return_Ok(Integer(first.kind,
                       IF cond.value THEN first.value ELSE second.value, FALSE)), cs)

(***************************************************************************)
(* The Integer specification: two operands, then up to MaxCalls calls of   *)
(* Integer's methods on them, each made on the constraint system cs1 and,   *)
(* with the same arguments, on the constraint system cs2 of a second run.  *)
(***************************************************************************)
MaxCalls == 2
MaxExponent == 3
MaxMagnitude == 255

\* Successor of a digit sequence (T::MAX + 1).
RECURSIVE Increment(_)
Increment(ds) ==
    IF ds = <<>> THEN <<1>>
    ELSE IF ds[Len(ds)] < 9 THEN [ds EXCEPT ![Len(ds)] = @ + 1]
    ELSE Increment(SubSeq(ds, 1, Len(ds) - 1)) \o <<0>>

ConstValues(kind) ==
    IF kind \in UnsignedKinds THEN {0, 1, 2, MaxMagnitude} ELSE {-128, -1, 0, 2, 127}

\* Values beyond the machine integers of the model: u64::MAX, and in u128
\* usize::MAX + 1 and u128::MAX.
WideValues(kind) ==
    CASE kind = "u64" -> {Digits(MaxDigits("u64"))}
      [] kind = "u128" -> {Digits(Increment(MaxDigits("usize"))), Digits(MaxDigits("u128"))}
      [] OTHER -> {}

IntegersOf(kind) ==
    {Integer_new(kind, v) : v \in ConstValues(kind)}
        \cup {Integer(kind, to_string(1), FALSE), Integer(kind, None, FALSE)}
        \cup {Integer(kind, v, c) : v \in WideValues(kind), c \in {TRUE}}

Representatives(kind) == {Integer_new(kind, 1), Integer(kind, None, FALSE)}

OperandPairs ==
    UNION {IntegersOf(k) \X IntegersOf(k) : k \in Kinds}
        \cup UNION {Representatives(kinds[1]) \X Representatives(kinds[2]) :
                        kinds \in {p \in Kinds \X Kinds : p[1] # p[2]}}

Spans == {Span(1, 1), Span(12, 5)}

Conditions == {Boolean_constant(TRUE), Boolean_constant(FALSE), Boolean_alloc(TRUE)}

\* The operands' values are machine integers of the model.
Machine(integer) == integer.value = None \/ Len(integer.value) <= 4

\* What the second run's constraint system holds before the first call: a
\* namespace its caller opened ("main").
Earlier == <<Namespace(<<109, 97, 105, 110>>, <<>>)>>

IInit ==
    /\ integers \in OperandPairs
    /\ cs1 = ConstraintSystem(1)
    /\ cs2 = [ConstraintSystem(2) EXCEPT !.assigns = FALSE, !.namespaces = Earlier]
    /\ invoked = [op |-> "none", span |-> Span(0, 0)]
    /\ returned = NoReturn
    /\ calls = 0
    /\ lhs = <<>> /\ rhs = <<>> /\ op = "none" /\ out = <<>>
    /\ director = <<>> /\ program = <<>> /\ result = <<>> /\ runs = 0
    /\ dump = <<>> /\ cli = <<>> /\ test = <<>>

\* The two runs' constraint systems.
System(run) == IF run = 1 THEN cs1 ELSE cs2

\* One call, made on cs1 and, with the same arguments, on cs2.
Called(name, span, r) ==
    /\ calls' = calls + 1
    /\ invoked' = [op |-> name, span |-> span]
    /\ returned' = r[1].ret
    /\ cs1' = r[1].cs
    /\ cs2' = r[2].cs
    /\ UNCHANGED integers
    /\ UNCHANGED gvars
    /\ UNCHANGED dvars
    /\ UNCHANGED toolvars

Negate ==
    \E span \in Spans :
        /\ calls < MaxCalls
        /\ Machine(integers[1])
        /\ Called("negate", span,
                  [run \in 1..2 |-> Integer_negate(System(run), integers[1], span)])

Add ==
    \E span \in Spans :
        /\ calls < MaxCalls
        /\ Machine(integers[1]) /\ Machine(integers[2])
        /\ Called("add", span,
                  [run \in 1..2 |->
                      Integer_add(System(run), integers[1], integers[2], span)])

ISub ==
    \E span \in Spans :
        /\ calls < MaxCalls
        /\ Machine(integers[1]) /\ Machine(integers[2])
        /\ Called("sub", span,
                  [run \in 1..2 |->
                      Integer_sub(System(run), integers[1], integers[2], span)])

Mul ==
    \E span \in Spans :
        /\ calls < MaxCalls
        /\ Machine(integers[1]) /\ Machine(integers[2])
        /\ Called("mul", span,
                  [run \in 1..2 |->
                      Integer_mul(System(run), integers[1], integers[2], span)])

\* The long division of a kind wider than MaxSize bits is not run: its MIN
\* and its bit values are no machine integers.
Divides(a, b) ==
    (/\ a.kind = b.kind /\ a.kind \in SignedKinds
     /\ a.value # None /\ b.value # None
     /\ from_string(a.value) # 0 /\ from_string(b.value) # 0)
        => SizeOf(a.kind) <= MaxSize

IDiv ==
    \E span \in Spans :
        /\ calls < MaxCalls
        /\ Machine(integers[1]) /\ Machine(integers[2])
        /\ Divides(integers[1], integers[2])
        /\ Called("div", span,
                  [run \in 1..2 |->
                      Integer_div(System(run), integers[1], integers[2], span)])

\* The exponent, when it reaches the gadget with a known value, is within
\* 0 .. MaxExponent.
Pow ==
    \E span \in Spans :
        /\ calls < MaxCalls
        /\ Machine(integers[1]) /\ Machine(integers[2])
        /\ (integers[1].kind = integers[2].kind /\ integers[2].value # None)
               => from_string(integers[2].value) \in 0..MaxExponent
        /\ Called("pow", span,
                  [run \in 1..2 |->
                      Integer_pow(System(run), integers[1], integers[2], span)])

ToUsize ==
    \E span \in Spans :
        /\ calls < MaxCalls
        /\ Called("to_usize", span,
                  [run \in 1..2 |->
                      Returned_(to_usize(integers[1], span), System(run))])

EvaluateEqual ==
    /\ calls < MaxCalls
    /\ Machine(integers[1]) /\ Machine(integers[2])
    /\ Called("evaluate_equal", Span(0, 0),
              [run \in 1..2 |->
                  Integer_evaluate_equal(System(run), integers[1], integers[2])])

LessThan ==
    /\ calls < MaxCalls
    /\ Machine(integers[1]) /\ Machine(integers[2])
    /\ Called("less_than", Span(0, 0),
              [run \in 1..2 |-> less_than(System(run), integers[1], integers[2])])

ConditionalEnforceEqual ==
    \E condition \in Conditions :
        /\ calls < MaxCalls
        /\ Called("conditional_enforce_equal", Span(0, 0),
                  [run \in 1..2 |->
                      conditional_enforce_equal(System(run), integers[1],
                                                integers[2], condition)])

ConditionallySelect ==
    \E cond \in Conditions :
        /\ calls < MaxCalls
        /\ Called("conditionally_select", Span(0, 0),
                  [run \in 1..2 |->
                      Integer_conditionally_select(System(run), cond, integers[1],
                                                   integers[2])])

INext ==
    \/ Negate \/ Add \/ ISub \/ Mul \/ IDiv \/ Pow
    \/ ToUsize \/ EvaluateEqual \/ LessThan \/ ConditionalEnforceEqual
    \/ ConditionallySelect

SpecInteger == IInit /\ [][INext]_vars

(***************************************************************************)
(* The input specification: one call of allocate_type or from_input.       *)
(***************************************************************************)
MaxAllocations == 1

\* "a"
ParameterNames == {<<97>>}

\* The strings handed to allocate_type for a kind: the empty string, text,
\* small numbers with and without a sign, and the kind's limits and the
\* numbers one beyond them.
Strings(kind) ==
    {<<>>, <<97>>, <<49, 32>>, <<48>>, <<48, 48, 55>>, <<43, 53>>, <<45, 49>>,
     <<45, 48>>, <<45>>}
        \cup {Digits(MaxDigits(kind)), Digits(Increment(MaxDigits(kind)))}
        \cup (IF kind \in SignedKinds
              THEN {<<45>> \o Digits(MinDigits(kind)),
                    <<45>> \o Digits(Increment(MinDigits(kind)))}
              ELSE {})

\* The input values: an integer of every kind, a boolean, a field element.
InputValues ==
    {InputValue("Integer", k, s) : k \in Kinds, s \in {<<53>>, <<51, 48, 48>>, <<45, 49>>}}
        \cup {InputValue("Boolean", "", <<116, 114, 117, 101>>),
              InputValue("Field", "", <<53>>), NoInput}

NInit ==
    /\ integers = <<>>
    /\ cs1 \in {[ConstraintSystem(1) EXCEPT !.assigns = t] : t \in BOOLEAN}
    /\ cs2 = [cs1 EXCEPT !.system = 2]
    /\ invoked = [op |-> "none", span |-> Span(0, 0)]
    /\ returned = NoReturn
    /\ calls = 0
    /\ lhs = <<>> /\ rhs = <<>> /\ op = "none" /\ out = <<>>
    /\ director = <<>> /\ program = <<>> /\ result = <<>> /\ runs = 0
    /\ dump = <<>> /\ cli = <<>> /\ test = <<>>

Allocated(name, integer_type, input, span, r) ==
    /\ calls' = calls + 1
    /\ invoked' = [op |-> name, span |-> span, integer_type |-> integer_type,
                input |-> input]
    /\ returned' = r[1].ret
    /\ cs1' = r[1].cs
    /\ cs2' = r[2].cs
    /\ UNCHANGED integers
    /\ UNCHANGED gvars
    /\ UNCHANGED dvars
    /\ UNCHANGED toolvars

Allocate ==
    \E integer_type \in Kinds, name \in ParameterNames, span \in Spans :
        \E option \in {Some(s) : s \in Strings(integer_type)} \cup {NoneString} :
            /\ calls < MaxAllocations
            /\ Allocated("allocate_type", integer_type, option, span,
                         [run \in 1..2 |->
                             allocate_type(System(run), integer_type, name, option,
                                           span)])

FromInput ==
    \E integer_type \in Kinds, name \in ParameterNames, span \in Spans :
        \E integer_value \in InputValues :
            /\ calls < MaxAllocations
            /\ Allocated("from_input", integer_type, integer_value, span,
                         [run \in 1..2 |->
                             from_input(System(run), integer_type, name,
                                        integer_value, span)])

NNext == Allocate \/ FromInput

SpecInput == NInit /\ [][NNext]_vars

(***************************************************************************)
(* Claims about the Integer, checked under SpecInteger and SpecInput.      *)
(***************************************************************************)
ArithmeticCalls == {"negate", "add", "sub", "mul", "div", "pow"}
BinaryCalls == {"add", "sub", "mul", "div", "pow"}
ComparisonCalls == {"evaluate_equal", "less_than", "conditional_enforce_equal"}

\* The operator each binary operation stands for: + - * U+00F7 **.
OperatorOf(name) ==
    CASE name = "add" -> <<43>>
      [] name = "sub" -> <<45>>
      [] name = "mul" -> <<42>>
      [] name = "div" -> <<247>>
      [] name = "pow" -> <<42, 42>>

IsAscii(s) == \A i \in 1..Len(s) : s[i] < 128

\* The labels the Integer has opened on the first run's constraint system.
Labels == [i \in 1..Len(cs1.namespaces) |-> cs1.namespaces[i].name]

\* C11: no two invocations of negate, add, sub, mul, div, pow on one
\* constraint system open the same namespace label.
C11_LabelsNeverCollide ==
    \A i, j \in 1..Len(Labels) : i # j => Labels[i] # Labels[j]

\* The namespaces a call has added to a constraint system.
Opened(after, before) ==
    SubSeq(after.namespaces, Len(before.namespaces) + 1, Len(after.namespaces))

\* The names a signed gadget of src/ opens inside its label, from the
\* operands alone: sub opens "negate" and, unless other is the kind's MIN,
\* "add_complement"; div opens nothing for a divisor known to be zero and
\* else its 18 + 7 * (SIZE - 1) + 5 names.
InnerSequence(name, a, b) ==
    IF a.kind \notin SignedKinds THEN <<>>
    ELSE IF name = "sub"
    THEN (IF b.value = MinValue(b.kind) THEN <<(<<"negate", 0>>)>>
          ELSE <<(<<"negate", 0>>), (<<"add_complement", 0>>)>>)
    ELSE IF name = "div"
    THEN (IF b.value # None /\ from_string(b.value) = 0 THEN <<>>
          ELSE div_namespaces(SizeOf(a.kind)))
    ELSE <<>>

\* The namespaces a call opens, from the operation, the operands' kinds and
\* printed values and the span's start alone: nothing of the constraint
\* system, of the calls made before, or of whether an operand is a constant.
LabelSequence(name, a, b, span) ==
    IF name = "negate"
    THEN (IF a.kind \in SignedKinds
          THEN <<Namespace(enforce \o <<45>> \o Integer_fmt(a) \o <<32>>
                               \o Decimal(span.line_start) \o <<58>>
                               \o Decimal(span.col_start), <<>>)>>
          ELSE <<>>)
    ELSE IF name \in BinaryCalls /\ a.kind = b.kind
    THEN <<Namespace(enforce \o Integer_fmt(a) \o <<32>> \o OperatorOf(name)
                         \o <<32>> \o Integer_fmt(b) \o <<32>>
                         \o Decimal(span.line_start) \o <<58>>
                         \o Decimal(span.col_start),
                     InnerSequence(name, a, b))>>
    ELSE <<>>

\* C12: a call opens, on the first run's constraint system (fresh, with
\* assignments) and on the second run's (with a namespace opened earlier,
\* without assignments), the same namespaces with the same labels in the
\* same order, and they are the sequence the operation, the operands and the
\* span determine.
C12_SameNamespacesInBothRuns ==
    [][calls' = calls + 1
          => /\ Opened(cs1', cs1) = Opened(cs2', cs2)
             /\ Opened(cs1', cs1) =
                    LabelSequence(invoked'.op, integers[1], integers[2],
                                  invoked'.span)
             /\ SubSeq(cs2'.namespaces, 1, Len(cs2.namespaces)) = cs2.namespaces
             /\ SubSeq(cs1'.namespaces, 1, Len(cs1.namespaces)) = cs1.namespaces]_vars

\* C12 witness: two calls, a signed division among them, have opened their
\* namespaces (the division's label and the gadget's names inside it) on
\* both constraint systems, after the second's earlier namespace.
C12_Witness ==
    /\ calls = 2 /\ Len(cs1.namespaces) = 2
    /\ invoked.op = "div" /\ integers[1].kind = "i16"
    /\ integers[1].value # None /\ integers[2].value # None
    /\ Len(cs1.namespaces[2].inner) = Len(div_namespaces(16))
    /\ cs2.namespaces = Earlier \o cs1.namespaces
    /\ cs2.assigns # cs1.assigns

\* C13: every label add, sub, mul, div and pow build is ASCII and reads
\* "enforce <lhs> <op> <rhs> <line>:<col>".
C13_LabelsAreAscii ==
    (invoked.op \in BinaryCalls /\ integers[1].kind = integers[2].kind)
        => /\ IsAscii(Labels[Len(Labels)])
           /\ Labels[Len(Labels)] =
                  enforce \o Integer_fmt(integers[1]) \o <<32>>
                      \o OperatorOf(invoked.op) \o <<32>>
                      \o Integer_fmt(integers[2]) \o <<32>>
                      \o Decimal(invoked.span.line_start) \o <<58>>
                      \o Decimal(invoked.span.col_start)

\* C14: add, sub, mul, div and pow on operands of two kinds return the
\* error BinaryOperation with the operation's operator and the span, and
\* open no namespace; on operands of one kind they return a result of that
\* kind or the gadget's error.
C14_KindMismatchIsBinaryOperation ==
    invoked.op \in BinaryCalls =>
        IF integers[1].kind # integers[2].kind
        THEN returned = Return_Err(binary_operation(OperatorOf(invoked.op),
                                                   invoked.span))
        ELSE \/ returned.how = "Ok" /\ returned.val.kind = integers[1].kind
             \/ returned.how = "Err"
                    /\ returned.err.error \in {"SignedIntegerError", "SynthesisError"}

\* C14 witness: a u8 divided by an i128 has returned BinaryOperation with
\* the division sign.
C14_Witness ==
    /\ invoked.op = "div"
    /\ integers[1].kind = "u8" /\ integers[2].kind = "i128"
    /\ returned.how = "Err" /\ returned.err.error = "BinaryOperation"
    /\ returned.err.value = <<247>>

\* C15: conditional selection, equality, less-than and conditional
\* enforce-equal on Integers of two kinds fail with Unsatisfiable;
\* conditional selection on Integers of one kind returns an Integer of
\* that kind.
C15_KindMismatchIsUnsatisfiable ==
    /\ (invoked.op \in ComparisonCalls \cup {"conditionally_select"}
           /\ integers[1].kind # integers[2].kind)
        => returned = Return_Err(Unsatisfiable)
    /\ (invoked.op = "conditionally_select"
           /\ integers[1].kind = integers[2].kind)
        => (returned.how = "Ok" /\ returned.val.kind = integers[1].kind)

\* C15 witness: selecting between an i64 and a u64 has failed as
\* Unsatisfiable.
C15_Witness ==
    /\ invoked.op = "conditionally_select"
    /\ integers[1].kind = "i64" /\ integers[2].kind = "u64"
    /\ returned = Return_Err(Unsatisfiable)

\* C16: allocate_type with a string that does not parse at the kind returns
\* the error InvalidInteger with that string and the span to its caller.
C16_UnparsableStringIsInvalidInteger ==
    (invoked.op = "allocate_type" /\ invoked.input.some
        /\ ~parse(invoked.integer_type, invoked.input.s).ok)
        => returned = Return_Err(invalid_integer(invoked.input.s, invoked.span))

\* C17: from_input returns InvalidInteger for every input value that is not
\* tagged as an integer of the declared kind.
C17_WrongTagIsInvalidInteger ==
    (invoked.op = "from_input" /\ invoked.input.some
        /\ (invoked.input.tag # "Integer"
               \/ invoked.input.type_ # invoked.integer_type))
        => (returned.how = "Err" /\ returned.err.error = "InvalidInteger")

\* C18: to_usize of an unsigned Integer returns its value when it is known
\* and fits usize, fails with InvalidIndex when it is unknown and with
\* InvalidInteger when it exceeds usize::MAX; of a signed Integer it
\* returns no usize.
C18_ToUsize ==
    invoked.op = "to_usize" =>
        IF integers[1].kind \in SignedKinds THEN returned.how # "Ok"
        ELSE IF integers[1].value = None
        THEN returned = Return_Err(invalid_index(invoked.span))
        ELSE IF DigitsLeq(integers[1].value, Digits(MaxDigits("usize")))
        THEN returned = Return_Ok(Usize(integers[1].value))
        ELSE returned = Return_Err(invalid_integer(integers[1].value, invoked.span))

\* C18 witness: to_usize of u128::MAX has failed with InvalidInteger.
C18_Witness ==
    /\ invoked.op = "to_usize"
    /\ integers[1] = Integer("u128", Digits(MaxDigits("u128")), TRUE)
    /\ returned.how = "Err" /\ returned.err.error = "InvalidInteger"

\* C19: negate of a signed Integer of value x returns -x unless x is the
\* kind's MIN, for which it fails; of an unsigned Integer it fails with the
\* negate-operation error.
C19_Negate ==
    (invoked.op = "negate" /\ integers[1].value # None) =>
        IF integers[1].kind \in UnsignedKinds
        THEN returned = Return_Err(negate_operation(invoked.span))
        ELSE IF integers[1].value = <<45>> \o Digits(MinDigits(integers[1].kind))
        THEN returned.how = "Err"
        ELSE /\ returned.how = "Ok"
             /\ returned.val.kind = integers[1].kind
             /\ returned.val.value = to_string(-from_string(integers[1].value))

\* C19 witness: negating the i8 -128 has failed.
C19_Witness ==
    /\ invoked.op = "negate"
    /\ integers[1] = Integer("i8", <<45, 49, 50, 56>>, TRUE)
    /\ returned.how = "Err"

(***************************************************************************)
(* C21: under a reducer whose every hook returns the tentative node it is  *)
(* handed, reduce_program returns Ok with a program equal to its input:    *)
(* every span, the parts of format strings, the accesses of packages, the  *)
(* dimensions of array initialisers and the indices of tuple accesses      *)
(* included.                                                               *)
(***************************************************************************)
C21_IdentityReducerReturnsInput ==
    (Ran /\ director.reducer.mode = "identity")
        => (result.ok /\ result.val = program)

\* The identity reducer went through a program with a formatted console
\* call, an import of packages, an array initialiser and a tuple access,
\* each carrying data the director does not reduce.
C21_Witness ==
    /\ Ran /\ director.reducer.mode = "identity" /\ result.ok
    /\ \E n \in Events :
          /\ Log[n].hook = "reduce_console"
          /\ Log[n].orig.kids[1].variant # "Assert"
          /\ Log[n].orig.kids[1].kids[1].data # <<>>
          /\ Log[n].ret = Log[n].orig
    /\ \E n \in Events :
          /\ Log[n].hook = "reduce_package_or_packages"
          /\ Log[n].orig.kids[1].data # <<>>
          /\ Log[n].ret = Log[n].orig
    /\ \E n \in Events :
          /\ Log[n].hook = "reduce_array_init" /\ Log[n].orig.data # <<>>
    /\ \E n \in Events :
          /\ Log[n].hook = "reduce_tuple_access" /\ Log[n].orig.data # <<>>

(***************************************************************************)
(* C30: between traversals, when no reduce_circuit_member call is in       *)
(* progress, the director's in_circuit flag is FALSE: reduce_circuit_member *)
(* puts the flag back on every exit path, a failure of the member's        *)
(* identifier, type or function included.                                  *)
(***************************************************************************)
C30_InCircuitRestored ==
    Ran => director.in_circuit = FALSE

(***************************************************************************)
(* C26: for N # MIN, D # MIN and D # 0 div runs the long division on the   *)
(* absolute values |N| and |D|: the loop's quotient is floor(|N| / |D|),   *)
(* and the result has that magnitude and is non-negative exactly when the  *)
(* sign bits of N and D agree or the magnitude is 0, which is the quotient *)
(* truncated toward zero.                                                  *)
(***************************************************************************)
C26_LongDivisionOnAbsoluteValues ==
    (DivDone /\ lhs.value # MIN /\ rhs.value # MIN /\ rhs.value # 0)
        => LET magnitude == Abs(lhs.value) \div Abs(rhs.value)
           IN  /\ out.a.ok /\ out.a.value = Abs(lhs.value)
               /\ out.b.ok /\ out.b.value = Abs(rhs.value)
               /\ out.q_loop.ok /\ out.q_loop.value = magnitude
               /\ out.res.ok /\ Abs(out.res.value) = magnitude
               /\ (out.res.value >= 0)
                     <=> (msb(lhs).value = msb(rhs).value \/ magnitude = 0)
               /\ out.res.value = NativeDiv(lhs.value, rhs.value)

\* -7 / 2 on allocated operands: the loop divided 7 by 2 and the result is -3.
C26_Witness ==
    /\ DivDone /\ lhs = alloc(-7) /\ rhs = alloc(2)
    /\ out.a.value = 7 /\ out.b.value = 2
    /\ out.q_loop.value = 3 /\ out.res.value = -3

(***************************************************************************)
(* C27: the loop's invariant, with Q the quotient the gadget holds.  With  *)
(* a = |A| and b = |B| > 0 as the loop receives them, after the iteration  *)
(* that consumes bit k of a (k from SIZE - 2 down to 0; the sign bit is    *)
(* skipped) Q * b + R is a shifted right by k bits and 0 <= R < b; the     *)
(* iteration wrote bit k of Q; at the loop's exit Q = floor(a / b) and     *)
(* R = a mod b.                                                            *)
(***************************************************************************)
C27_LoopInvariantOnQ ==
    (DivDone /\ rhs.value # 0)
        => /\ out.b.value > 0
           /\ Len(out.trace) = SIZE - 1
           /\ \A j \in 1..Len(out.trace) :
                 LET it == out.trace[j]
                     k == SIZE - 1 - j
                     Q == it.q.value
                     R == it.r.value
                 IN  /\ it.index = k
                     /\ Q * out.b.value + R = out.a.value \div (2 ^ k)
                     /\ 0 <= R /\ R < out.b.value
                     /\ (((Q \div (2 ^ k)) % 2) = 1) <=> it.can_sub
           /\ out.trace[SIZE - 1].q.value = out.a.value \div out.b.value
           /\ out.trace[SIZE - 1].r.value = out.a.value % out.b.value

(***************************************************************************)
(* C27, amended.  The quotient bits are written at their final places, so  *)
(* the invariant relates Q shifted right by k bits: after the iteration    *)
(* that consumes bit k of a, (Q >> k) * b + R = a >> k and 0 <= R < b;     *)
(* the iteration wrote bit k of Q (set exactly when the divisor was        *)
(* subtracted) and no bit of Q below k is set; at the loop's exit          *)
(* Q = floor(a / b) and R = a mod b.                                       *)
(***************************************************************************)
C27_LoopInvariant ==
    (DivDone /\ rhs.value # 0)
        => /\ out.b.value > 0
           /\ Len(out.trace) = SIZE - 1
           /\ \A j \in 1..Len(out.trace) :
                 LET it == out.trace[j]
                     k == SIZE - 1 - j
                     Q == it.q.value
                     R == it.r.value
                 IN  /\ it.index = k
                     /\ it.bit = (((out.a.value \div (2 ^ k)) % 2) = 1)
                     /\ (Q \div (2 ^ k)) * out.b.value + R
                            = out.a.value \div (2 ^ k)
                     /\ 0 <= R /\ R < out.b.value
                     /\ Q % (2 ^ k) = 0
                     /\ (((Q \div (2 ^ k)) % 2) = 1) <=> it.can_sub
           /\ out.trace[SIZE - 1].q.value = out.a.value \div out.b.value
           /\ out.trace[SIZE - 1].r.value = out.a.value % out.b.value

\* 100 / 7 on allocated operands: after the iteration for bit 3 the quotient
\* is 8 (its bit 3 was just written; 1 * 7 + 5 = 12 = 100 >> 3, whereas
\* 8 * 7 + 5 = 61), and the loop ends with Q = 14 and R = 2.
C27_Witness ==
    /\ DivDone /\ lhs = alloc(100) /\ rhs = alloc(7)
    /\ out.trace[4].index = 3 /\ out.trace[4].can_sub
    /\ out.trace[4].q.value = 8 /\ out.trace[4].r.value = 5
    /\ out.trace[SIZE - 1].q.value = 14 /\ out.trace[SIZE - 1].r.value = 2

(***************************************************************************)
(* C28: for every operand pair with D # 0, MIN on either side included,    *)
(* every intermediate value of div is computed without overflow: MIN + 1,  *)
(* the negations of 1, A, B and Q, and in every iteration R + R, R + 1     *)
(* (computed whatever the numerator bit) and R - b (computed whether or    *)
(* not R >= b).  So all SIZE - 1 iterations run and div returns Ok.        *)
(***************************************************************************)
C28_NoInternalOverflow ==
    (DivDone /\ rhs.value # 0)
        => /\ \A k \in 1..Len(out.pre) :
                 out.pre[k].ok /\ InRange(out.pre[k].value)
           /\ Len(out.trace) = SIZE - 1
           /\ \A j \in 1..Len(out.trace) :
                 /\ ~out.trace[j].failed
                 /\ out.trace[j].r_shift.ok /\ InRange(out.trace[j].r_shift.value)
                 /\ out.trace[j].r_new.ok /\ InRange(out.trace[j].r_new.value)
                 /\ out.trace[j].sub.ok /\ InRange(out.trace[j].sub.value)
           /\ out.q_neg.ok /\ InRange(out.q_neg.value)
           /\ out.res.ok

\* MIN / 127 on allocated operands: a = MAX, reached through MIN + 1; the
\* last iteration doubles R = 63 and adds 1, reaching MAX, and an earlier
\* one computed R - b = 1 - 127 although R < b.
C28_Witness ==
    /\ DivDone /\ lhs = alloc(MIN) /\ rhs = alloc(MAX)
    /\ out.pre[2].value = MIN + 1 /\ out.a.value = MAX
    /\ out.trace[1].sub.ok /\ out.trace[1].sub.value = 1 - MAX
    /\ ~out.trace[1].can_sub
    /\ out.trace[SIZE - 1].r_shift.value = MAX - 1
    /\ out.trace[SIZE - 1].r_new.value = MAX
    /\ out.res.ok

\* The names of a call that runs to its end, at the modelled width.
DivNamespaces == div_namespaces(SIZE)

DivNamespacesDistinct ==
    \A j, k \in 1..Len(DivNamespaces) :
        DivNamespaces[j] = DivNamespaces[k] => j = k

(***************************************************************************)
(* C29: the sequence of namespace names a div call opens is the same for   *)
(* every operand pair with D # 0, whatever the values and whether they are *)
(* constants or allocated (the 18 + 7 * (SIZE - 1) + 5 names of            *)
(* div_namespaces), and no name occurs twice in it.                        *)
(***************************************************************************)
C29_NamespacesIndependentOfValues ==
    (DivDone /\ rhs.value # 0)
        => /\ div_opened(out) = DivNamespaces
           /\ Len(DivNamespaces) = 18 + 7 * (SIZE - 1) + 5
           /\ DivNamespacesDistinct

\* MIN / -1 on allocated operands opened all the names, the loop's among them.
C29_Witness ==
    /\ DivDone /\ lhs = alloc(MIN) /\ rhs = alloc(-1)
    /\ Len(div_opened(out)) = 18 + 7 * (SIZE - 1) + 5
    /\ div_opened(out)[19] = <<"shift_left", 1>>
    /\ div_opened(out)[Len(div_opened(out))] = <<"self_or_quotient", 0>>

(***************************************************************************)
(* The stage-dump binary: stages/src/main.rs.  One run reads and parses    *)
(* the file, and after each stage writes the dump the flags select.        *)
(***************************************************************************)

DumpFlags == {"all", "initial", "canonicalization", "inference"}
DumpFiles == {"initial.json", "canonicalization.json", "type_inference.json"}

\* The steps of main that end in `?`, in the order main takes them; a write
\* has two: File::create and serde_json::to_writer_pretty.
Step(name, file) == <<name, file>>
NoFault == Step("none", "")
DumpSteps ==
    {Step(n, "") : n \in {"open", "read", "parse", "canonicalize", "asg",
                          "type_inference"}}
        \cup {Step(n, f) : n \in {"create", "serialize"}, f \in DumpFiles}
Faults == DumpSteps \cup {NoFault}

\* What a run did to each dump file: nothing, created or truncated it
\* (File::create) without writing the whole AST, or wrote the whole AST.
NoFiles == [f \in DumpFiles |-> "untouched"]

\* The process's exit: main's Ok(()) is 0, an Err is reported and is 1.
Exit(code, files) == [code |-> code, files |-> files]

StageOk(files) == [ok |-> TRUE, files |-> files]
StageErr(files) == [ok |-> FALSE, files |-> files]

\* serde_json::to_writer_pretty(&File::create(file)?, &program)?
write_ast(files, file, fault) ==
    IF fault = Step("create", file)
    THEN StageErr(files)
    ELSE IF fault = Step("serialize", file)
    THEN StageErr([files EXCEPT ![file] = "truncated"])
    ELSE StageOk([files EXCEPT ![file] = "written"])

\* matches.is_present("all") || matches.is_present(flag)
is_present(flags, flag) == "all" \in flags \/ flag \in flags

\* if all || flag { write_ast(ast.clone(), file)?; }
write_selected(flags, flag, files, file, fault) ==
    IF is_present(flags, flag) THEN write_ast(files, file, fault)
    ELSE StageOk(files)

\* main: every step's `?` returns the error at once, with the files as
\* the steps before it left them.
main(flags, fault) ==
    LET initial == write_selected(flags, "initial", NoFiles,
                                  "initial.json", fault)
        canonicalization == write_selected(flags, "canonicalization",
                                initial.files, "canonicalization.json", fault)
        inference == write_selected(flags, "inference",
                                canonicalization.files, "type_inference.json",
                                fault)
    IN  IF fault \in {Step("open", ""), Step("read", ""), Step("parse", "")}
        THEN Exit(1, NoFiles)
        ELSE IF ~initial.ok
        THEN Exit(1, initial.files)
        ELSE IF fault = Step("canonicalize", "")
        THEN Exit(1, initial.files)
        ELSE IF ~canonicalization.ok
        THEN Exit(1, canonicalization.files)
        ELSE IF fault \in {Step("asg", ""), Step("type_inference", "")}
        THEN Exit(1, canonicalization.files)
        ELSE IF ~inference.ok
        THEN Exit(1, inference.files)
        ELSE Exit(0, inference.files)

SInit ==
    /\ dump \in [flags : SUBSET DumpFlags, fault : Faults,
                 pc : {"start"}, exit : {Exit(0, NoFiles)}]
    /\ cli = <<>> /\ test = <<>>
    /\ lhs = <<>> /\ rhs = <<>> /\ op = "none" /\ out = <<>>
    /\ director = <<>> /\ program = <<>> /\ result = <<>> /\ runs = 0
    /\ integers = <<>> /\ cs1 = <<>> /\ cs2 = <<>> /\ invoked = <<>> /\ returned = <<>> /\ calls = 0

Main ==
    /\ dump.pc = "start"
    /\ dump' = [dump EXCEPT !.pc = "exited",
                            !.exit = main(dump.flags, dump.fault)]
    /\ UNCHANGED <<cli, test>>
    /\ UNCHANGED gvars
    /\ UNCHANGED dvars
    /\ UNCHANGED ivars

SNext == Main

SpecStages == SInit /\ [][SNext]_vars

Exited == dump.pc = "exited"

\* The fault is at a step this run takes: a write is taken when its flag or
\* `all` is present, every other step always.
FaultTaken ==
    /\ dump.fault # NoFault
    /\ dump.fault[2] = "initial.json" => is_present(dump.flags, "initial")
    /\ dump.fault[2] = "canonicalization.json"
            => is_present(dump.flags, "canonicalization")
    /\ dump.fault[2] = "type_inference.json"
            => is_present(dump.flags, "inference")

\* C22: a stage-dump run that fails, at whichever stage and with whichever
\* flags, exits non-zero and has written none of initial.json,
\* canonicalization.json and type_inference.json.
C22_FailedRunWritesNoDump ==
    (Exited /\ FaultTaken)
        => /\ dump.exit.code # 0
           /\ \A f \in DumpFiles : dump.exit.files[f] = "untouched"

(***************************************************************************)
(* The `new` command: leo/commands/new.rs.  The disk is the current        *)
(* working directory, a map from entry names to what is there.             *)
(***************************************************************************)

MaxName == 2

\* Package names are strings over a few characters of each class: letters,
\* a digit, the hyphen, the underscore, and two that are none of these.
LetterChars == {"a", "Z"}
DigitChars == {"7"}
NameChars == LetterChars \cup DigitChars \cup {"-", "_", "/", "."}
RECURSIVE NamesOfLen(_)
NamesOfLen(n) ==
    IF n = 0 THEN {<<>>}
    ELSE {Append(s, c) : s \in NamesOfLen(n - 1), c \in NameChars}
PackageNames == UNION {NamesOfLen(n) : n \in 1..MaxName}

\* LeoPackage::is_package_name_valid: letters, digits, hyphen, underscore,
\* and no digit in front.
is_package_name_valid(package_name) ==
    /\ \A i \in 1..Len(package_name) :
            package_name[i] \in LetterChars \cup DigitChars \cup {"-", "_"}
    /\ package_name[1] \notin DigitChars

\* An entry of the working directory: nothing, a directory (holding an
\* initialized package or not), a file, or a symbolic link to nothing.
Absent == [kind |-> "absent", package |-> FALSE]
Directory(package) == [kind |-> "dir", package |-> package]
RegularFile == [kind |-> "file", package |-> FALSE]
DanglingLink == [kind |-> "dangling", package |-> FALSE]

\* The names the working directory may hold before the command runs.
DiskNames == {<<"a">>, <<"a", "-">>}
Disks ==
    {[n \in PackageNames |-> IF n \in DiskNames THEN d[n] ELSE Absent] :
        d \in [DiskNames -> {Absent, Directory(FALSE), Directory(TRUE),
                             RegularFile, DanglingLink}]}

\* The calls of apply that can fail for reasons of the environment.
NewFaults == {"none", "current_dir", "create_dir_all", "initialize"}

\* path.exists() for current_dir() with package_name pushed.  Path::exists
\* follows links: a link to nothing does not exist.
exists(disk, package_name) == disk[package_name].kind \in {"dir", "file"}

NewOk(disk) == [ok |-> TRUE, err |-> "", disk |-> disk]
NewErr(err, disk) == [ok |-> FALSE, err |-> err, disk |-> disk]

\* fs::create_dir_all: Ok when the directory is there already, an error when
\* something else is.
create_dir_all(disk, package_name, fault) ==
    IF fault = "create_dir_all" THEN NewErr("Could not create directory", disk)
    ELSE IF disk[package_name].kind = "dir"
    THEN NewOk(disk)
    ELSE IF disk[package_name].kind = "absent"
    THEN NewOk([disk EXCEPT ![package_name] = Directory(FALSE)])
    ELSE NewErr("Could not create directory", disk)

\* LeoPackage::initialize: writes the package's files into the directory.
initialize(disk, package_name, fault) ==
    IF fault = "initialize"
    THEN NewErr("initialize", disk)
    ELSE NewOk([disk EXCEPT ![package_name] = Directory(TRUE)])

\* New::apply
apply(package_name, disk, fault) ==
    LET created == create_dir_all(disk, package_name, fault)
    IN  IF ~is_package_name_valid(package_name)
        THEN NewErr("Invalid Leo project name", disk)
        ELSE IF fault = "current_dir"
        THEN NewErr("current_dir", disk)
        ELSE IF exists(disk, package_name)
        THEN NewErr("Directory already exists", disk)
        ELSE IF ~created.ok
        THEN created
        ELSE initialize(created.disk, package_name, fault)

CInit ==
    /\ cli \in [name : PackageNames, fault : NewFaults, before : Disks,
                pc : {"start"}, ret : {NewOk(<<>>)}]
    /\ dump = <<>> /\ test = <<>>
    /\ lhs = <<>> /\ rhs = <<>> /\ op = "none" /\ out = <<>>
    /\ director = <<>> /\ program = <<>> /\ result = <<>> /\ runs = 0
    /\ integers = <<>> /\ cs1 = <<>> /\ cs2 = <<>> /\ invoked = <<>> /\ returned = <<>> /\ calls = 0

New ==
    /\ cli.pc = "start"
    /\ cli' = [cli EXCEPT !.pc = "done",
                          !.ret = apply(cli.name, cli.before, cli.fault)]
    /\ UNCHANGED <<dump, test>>
    /\ UNCHANGED gvars
    /\ UNCHANGED dvars
    /\ UNCHANGED ivars

CNext == New

SpecNew == CInit /\ [][CNext]_vars

Applied == cli.pc = "done"

\* C23: `new` fails when the name is not a valid package name or when
\* <cwd>/<name> is there already, and then the disk is as it was; otherwise
\* it returns Ok and the disk differs from the one before exactly in <name>,
\* now a directory with the package initialized in it.  A run that a failing
\* call into the file system ends is read as one that fails: it, too, has to
\* leave the disk as it was.
C23_NewCreatesOrFailsUnchanged ==
    Applied =>
        LET name == cli.name
            refused == \/ ~is_package_name_valid(name)
                       \/ cli.before[name] # Absent
        IN  /\ refused => (~cli.ret.ok /\ cli.ret.disk = cli.before)
            /\ ~refused
                    => \/ /\ cli.ret.ok
                          /\ cli.ret.disk =
                               [cli.before EXCEPT ![name] = Directory(TRUE)]
                       \/ /\ ~cli.ret.ok
                          /\ cli.fault # "none"
                          /\ cli.ret.disk = cli.before

(***************************************************************************)
(* The compiler's tests: compiler/tests/field/mod.rs and                   *)
(* compiler/tests/statements/conditional/mod.rs.  A test builds a program  *)
(* and its main input, compiles it on a test constraint system and looks   *)
(* at the outcome.  The field is a small prime field in Fq's place.        *)
(***************************************************************************)

MaxPrime == 4
MaxLiteral == 2

Primes == <<2, 3, 5, 7, 11, 13>>
Modulus == Primes[MaxPrime]
Fq == 0..(Modulus - 1)

\* a.add(&b) without the reduction.
Fq_add_Unreduced(a, b) == a + b

\* a.add(&b) in Fq
Fq_add(a, b) == (a + b) % Modulus

\* The inverse of a non-zero element.
Fq_inverse(a) == CHOOSE i \in Fq : (a * i) % Modulus = 1

\* f.write(&mut buf): the element's bytes, the low byte first.
Fq_write(f) == <<f % 256, (f \div 256) % 256>>

\* BigUint::from_bytes_le(&buf)
from_bytes_le(buf) == buf[1] + 256 * buf[2]

\* f_bigint.to_str_radix(10)
to_str_radix(n) == Decimal(n)

field_to_decimal_string(f) == to_str_radix(from_bytes_le(Fq_write(f)))

\* Fq::from_str: the decimal digits, read in the field.
Fq_from_str(s) == DigitsValue(s, 0) % Modulus

\* The test constraint system: the namespaces opened on it and the
\* constraints enforced, each a * b = c by the values the assignment gives
\* its three linear combinations.
TestConstraintSystem == [ns |-> ConstraintSystem(1), constraints |-> <<>>]

cs_enforce(tcs, a, b, c) ==
    [tcs EXCEPT !.constraints = Append(@, <<a, b, c>>)]

is_satisfied(tcs) ==
    \A i \in 1..Len(tcs.constraints) :
        (tcs.constraints[i][1] * tcs.constraints[i][2]
            - tcs.constraints[i][3]) % Modulus = 0

\* 1 for true, 0 for false: a Boolean's value in the field.
BitValue(b) == IF b THEN 1 ELSE 0

\* ConstrainedValue: a Boolean, a Field (value, constant or allocated), an
\* Integer, or the empty tuple.
CV_Boolean(b) == [variant |-> "Boolean", v |-> b]
CV_Field(value, c) == [variant |-> "Field", v |-> [value |-> value, const |-> c]]
CV_Integer(integer) == [variant |-> "Integer", v |-> integer]
CV_Unit == [variant |-> "Tuple", v |-> <<>>]

\* What a step of the synthesis hands back, with the constraint system as
\* it left it.
Synth_Ok(val, tcs) == [ok |-> TRUE, err |-> "", val |-> val, tcs |-> tcs]
Synth_Err(err, tcs) == [ok |-> FALSE, err |-> err, val |-> CV_Unit, tcs |-> tcs]

\* `let x = value;` and what follows it: value is evaluated once and F is
\* applied to what it evaluated to.
Bind(value, F(_)) == CHOOSE y \in {F(x) : x \in {value}} : TRUE

\* Boolean::alloc: the bit b with b * (1 - b) = 0 enforced.
allocate_bool(tcs, b) ==
    Synth_Ok(CV_Boolean(Boolean_alloc(b)),
             cs_enforce(tcs, BitValue(b), 1 - BitValue(b), 0))

\* A parameter's name as the characters a label is made of.
NameChars_(name) ==
    CASE name = "a" -> <<97>> [] name = "b" -> <<98>> [] name = "c" -> <<99>>

\* The input of main for a parameter of the declared type: the tag must be
\* the type's; a u32 goes through Integer::from_input.
allocate_main_input(tcs, type_, name, input_option, span) ==
    IF ~input_option.some THEN Synth_Err("missing input", tcs)
    ELSE IF type_ = "field"
    THEN IF input_option.tag # "Field" THEN Synth_Err("invalid field", tcs)
         ELSE Synth_Ok(CV_Field(Fq_from_str(input_option.number), FALSE), tcs)
    ELSE IF type_ = "bool"
    THEN IF input_option.tag # "Boolean" THEN Synth_Err("invalid boolean", tcs)
         ELSE allocate_bool(tcs, input_option.number = <<116, 114, 117, 101>>)
    ELSE Bind(from_input(tcs.ns, type_, NameChars_(name), input_option, span),
              LAMBDA r :
                IF r.ret.how # "Ok"
                THEN Synth_Err(r.ret.err.error, [tcs EXCEPT !.ns = r.cs])
                ELSE Synth_Ok(CV_Integer(r.ret.val), [tcs EXCEPT !.ns = r.cs]))

\* The library's equality gadget, for two values with the difference d in
\* the field and the answer b: a bit allocated for b and, with a witness
\* for 1/d, the constraints d * (1/d) = 1 - bit and d * bit = 0.  Two
\* constants make a constant and no constraint.
enforce_is_equal(tcs, d, b, c) ==
    IF c THEN Synth_Ok(CV_Boolean(Boolean_constant(b)), tcs)
    ELSE Bind(allocate_bool(tcs, b),
              LAMBDA bit_ :
                Synth_Ok(bit_.val,
                    cs_enforce(cs_enforce(bit_.tcs, d,
                                   IF d = 0 THEN 0 ELSE Fq_inverse(d),
                                   1 - BitValue(b)),
                               d, BitValue(b), 0)))

\* a + b on fields: the sum of the two linear combinations, no constraint.
enforce_add(tcs, l, r) ==
    IF l.variant = "Field" /\ r.variant = "Field"
    THEN Synth_Ok(CV_Field(Fq_add(l.v.value, r.v.value),
                           l.v.const /\ r.v.const), tcs)
    ELSE Synth_Err("incompatible types", tcs)

\* a == b: on fields the field's equality gadget, on integers
\* Integer::evaluate_equal.
evaluate_eq(tcs, l, r) ==
    IF l.variant = "Field" /\ r.variant = "Field"
    THEN enforce_is_equal(tcs, (l.v.value - r.v.value) % Modulus,
                          l.v.value = r.v.value, l.v.const /\ r.v.const)
    ELSE IF l.variant = "Integer" /\ r.variant = "Integer"
    THEN Bind(Integer_evaluate_equal(tcs.ns, l.v, r.v),
              LAMBDA e :
                IF e.ret.how # "Ok" THEN Synth_Err(e.ret.err.error, tcs)
                ELSE enforce_is_equal([tcs EXCEPT !.ns = e.cs],
                         (from_string(l.v.value) - from_string(r.v.value)) % Modulus,
                         e.ret.val.value = <<116, 114, 117, 101>>,
                         e.ret.val.const))
    ELSE Synth_Err("incompatible types", tcs)

\* Expressions: <<"var", name>>, <<"u32", n>>, <<"add", l, r>>, <<"eq", l, r>>.
RECURSIVE enforce_expression(_, _, _)
enforce_expression(tcs, env, e) ==
    IF e[1] = "var" THEN Synth_Ok(env[e[2]], tcs)
    ELSE IF e[1] = "u32" THEN Synth_Ok(CV_Integer(Integer_new("u32", e[2])), tcs)
    ELSE Bind(enforce_expression(tcs, env, e[2]),
              LAMBDA l :
                IF ~l.ok THEN l
                ELSE Bind(enforce_expression(l.tcs, env, e[3]),
                          LAMBDA r :
                            IF ~r.ok THEN r
                            ELSE IF e[1] = "add"
                            THEN enforce_add(r.tcs, l.val, r.val)
                            ELSE evaluate_eq(r.tcs, l.val, r.val)))

\* What a statement hands back: the (indicator, value) pairs its return
\* statements produced.
Stmt_Ok(results, tcs) == [ok |-> TRUE, err |-> "", results |-> results, tcs |-> tcs]
Stmt_Err(err, tcs) == [ok |-> FALSE, err |-> err, results |-> <<>>, tcs |-> tcs]

Boolean_not(b) == [value |-> ~b.value, const |-> b.const]

\* Boolean::and on the constraint system: x * y = z for two allocated bits,
\* no constraint when one is a constant.
enforce_and(tcs, x, y) ==
    [b |-> Boolean_and(x, y),
     tcs |-> IF x.const \/ y.const THEN tcs
             ELSE cs_enforce(tcs, BitValue(x.value), BitValue(y.value),
                             BitValue(x.value /\ y.value))]

\* console.assert(e): e is evaluated; under a true indicator a false value
\* is the error "assertion failed".
evaluate_console_assert(tcs, env, indicator, e) ==
    Bind(enforce_expression(tcs, env, e),
         LAMBDA value :
            IF ~value.ok THEN Stmt_Err(value.err, value.tcs)
            ELSE IF ~indicator.value THEN Stmt_Ok(<<>>, value.tcs)
            ELSE IF value.val.variant # "Boolean"
            THEN Stmt_Err("assertion must be boolean", value.tcs)
            ELSE IF ~value.val.v.value
            THEN Stmt_Err("assertion failed", value.tcs)
            ELSE Stmt_Ok(<<>>, value.tcs))

\* return e
enforce_return_statement(tcs, env, indicator, e) ==
    Bind(enforce_expression(tcs, env, e),
         LAMBDA value :
            IF ~value.ok THEN Stmt_Err(value.err, value.tcs)
            ELSE Stmt_Ok(<<<<indicator, value.val>>>>, value.tcs))

\* Statements: <<"assert", e>>, <<"return", e>>, <<"if", e, block, block>>.
\* A conditional evaluates both blocks, the first under indicator && e, the
\* second under indicator && !e, and hands back the results of both.
RECURSIVE enforce_statement(_, _, _, _)
RECURSIVE enforce_block(_, _, _, _)

\* The two branches, the condition being a Boolean.
enforce_branches(tcs, env, indicator, inner_indicator, s) ==
    Bind(enforce_and(tcs, indicator, inner_indicator),
         LAMBDA branch_1_indicator :
    Bind(enforce_block(branch_1_indicator.tcs, env, branch_1_indicator.b, s[3]),
         LAMBDA branch_1 :
            IF ~branch_1.ok THEN branch_1
            ELSE
    Bind(enforce_and(branch_1.tcs, indicator, Boolean_not(inner_indicator)),
         LAMBDA branch_2_indicator :
    Bind(enforce_block(branch_2_indicator.tcs, env, branch_2_indicator.b, s[4]),
         LAMBDA branch_2 :
            IF ~branch_2.ok THEN branch_2
            ELSE Stmt_Ok(branch_1.results \o branch_2.results, branch_2.tcs)))))

enforce_conditional_statement(tcs, env, indicator, s) ==
    Bind(enforce_expression(tcs, env, s[2]),
         LAMBDA condition :
            IF ~condition.ok THEN Stmt_Err(condition.err, condition.tcs)
            ELSE IF condition.val.variant # "Boolean"
            THEN Stmt_Err("condition must be boolean", condition.tcs)
            ELSE enforce_branches(condition.tcs, env, indicator,
                                  condition.val.v, s))

enforce_statement(tcs, env, indicator, s) ==
    IF s[1] = "assert" THEN evaluate_console_assert(tcs, env, indicator, s[2])
    ELSE IF s[1] = "return" THEN enforce_return_statement(tcs, env, indicator, s[2])
    ELSE enforce_conditional_statement(tcs, env, indicator, s)

enforce_block(tcs, env, indicator, block) ==
    IF block = <<>> THEN Stmt_Ok(<<>>, tcs)
    ELSE Bind(enforce_statement(tcs, env, indicator, Head(block)),
              LAMBDA first :
                IF ~first.ok THEN first
                ELSE Bind(enforce_block(first.tcs, env, indicator, Tail(block)),
                          LAMBDA rest :
                            IF ~rest.ok THEN rest
                            ELSE Stmt_Ok(first.results \o rest.results, rest.tcs)))

\* ConstrainedValue::conditionally_select: two Integers go to
\* Integer::conditionally_select, the library's select enforcing
\* cond * (first - second) = result - second; other pairs cannot be selected.
CV_conditionally_select(tcs, cond, first, second) ==
    IF first.variant = "Integer" /\ second.variant = "Integer"
    THEN Bind(Integer_conditionally_select(tcs.ns, cond, first.v, second.v),
              LAMBDA s :
                IF s.ret.how # "Ok" THEN Synth_Err(s.ret.err.error, tcs)
                ELSE Synth_Ok(CV_Integer(s.ret.val),
                         IF cond.const THEN tcs
                         ELSE cs_enforce(tcs, BitValue(cond.value),
                                  from_string(first.v.value) - from_string(second.v.value),
                                  from_string(s.ret.val.value) - from_string(second.v.value))))
    ELSE Synth_Err("Unsatisfiable", tcs)

\* The results whose indicator is false are selected out one by one.
RECURSIVE select_ignored(_, _, _)
select_ignored(tcs, ignored, return_value) ==
    IF ignored = <<>> THEN Synth_Ok(return_value, tcs)
    ELSE Bind(CV_conditionally_select(tcs, Head(ignored)[1], Head(ignored)[2],
                                      return_value),
              LAMBDA s :
                IF ~s.ok THEN s ELSE select_ignored(s.tcs, Tail(ignored), s.val))

\* The function's return value out of the results of its return statements:
\* the one result whose indicator is true, the others selected out.
conditionally_select_result(tcs, results) ==
    LET found == SelectSeq(results, LAMBDA r : r[1].value)
        ignored == SelectSeq(results, LAMBDA r : ~r[1].value)
    IN  IF Len(found) > 1 THEN Synth_Err("multiple returns", tcs)
        ELSE select_ignored(tcs, ignored,
                 IF found = <<>> THEN CV_Unit ELSE found[1][2])

\* The inputs of main allocated in the order of the parameters; main_input
\* maps a parameter's name to its Option<InputValue>.
RECURSIVE allocate_inputs(_, _, _, _)
allocate_inputs(tcs, inputs, main_input, env) ==
    IF inputs = <<>> THEN [ok |-> TRUE, err |-> "", env |-> env, tcs |-> tcs]
    ELSE Bind(allocate_main_input(tcs, Head(inputs)[2], Head(inputs)[1],
                                  main_input[Head(inputs)[1]], Span(1, 1)),
              LAMBDA a :
                IF ~a.ok THEN [ok |-> FALSE, err |-> a.err, env |-> env, tcs |-> a.tcs]
                ELSE allocate_inputs(a.tcs, Tail(inputs), main_input,
                                     env @@ (Head(inputs)[1] :> a.val)))

\* generate_constraints_helper: allocate the inputs, evaluate the body under
\* the constant indicator true, select the return value.
generate_constraints_helper(function, main_input) ==
    Bind(allocate_inputs(TestConstraintSystem, function.inputs, main_input, <<>>),
         LAMBDA allocated :
            IF ~allocated.ok THEN Synth_Err(allocated.err, allocated.tcs)
            ELSE Bind(enforce_block(allocated.tcs, allocated.env,
                                    Boolean_constant(TRUE), function.body),
                      LAMBDA body :
                        IF ~body.ok THEN Synth_Err(body.err, body.tcs)
                        ELSE conditionally_select_result(body.tcs, body.results)))

\* add.leo: function main(a: field, b: field, c: field) with
\* console.assert(a + b == c).
add_leo ==
    [inputs |-> <<<<"a", "field">>, <<"b", "field">>, <<"c", "field">>>>,
     body |-> <<<<"assert", <<"eq", <<"add", <<"var", "a">>, <<"var", "b">>>>,
                                    <<"var", "c">>>>>>>>]

\* console_assert.leo: function main(a: field, b: field) with
\* console.assert(a == b).
console_assert_leo ==
    [inputs |-> <<<<"a", "field">>, <<"b", "field">>>>,
     body |-> <<<<"assert", <<"eq", <<"var", "a">>, <<"var", "b">>>>>>>>]

\* multiple_returns.leo: a conditional on the input a, a bool itself or a
\* u32 compared with a literal, with a return in each branch.
multiple_returns_leo(type_, literal, then_value, else_value) ==
    [inputs |-> <<<<"a", type_>>>>,
     body |-> <<<<"if",
                  IF type_ = "bool" THEN <<"var", "a">>
                  ELSE <<"eq", <<"var", "a">>, <<"u32", literal>>>>,
                  <<<<"return", <<"u32", then_value>>>>>>,
                  <<<<"return", <<"u32", else_value>>>>>>>>>>]

\* Some(InputValue::Field(string))
InputValue_Field(string) == InputValue("Field", "", string)

\* Some(InputValue::Boolean(b))
InputValue_Boolean(b) ==
    InputValue("Boolean", "",
               IF b THEN <<116, 114, 117, 101>> ELSE <<102, 97, 108, 115, 101>>)

\* generate_test_input_u32(number)
generate_test_input_u32(number) == InputValue("Integer", "u32", to_string(number))

\* assert_satisfied: the program compiles and the constraint system is
\* satisfied.
assert_satisfied(compiled) == compiled.ok /\ is_satisfied(compiled.tcs)

\* expect_compiler_error: generate_constraints_helper returns an error.
expect_compiler_error(compiled) == ~compiled.ok

\* get_output: the value main returned, as the output register prints it;
\* the program must compile and the constraint system be satisfied.
get_output(compiled) ==
    IF assert_satisfied(compiled) /\ compiled.val.variant = "Integer"
    THEN Integer_fmt(compiled.val.v)
    ELSE <<>>

\* registers_one.out and registers_zero.out: the register's value.
registers_out(number) == Decimal(number)

\* The test cases: the test, the field elements or the input it draws, and
\* for multiple_returns the program's literals.
NotRun == Synth_Ok(CV_Unit, TestConstraintSystem)

TestCase(case, type_, a, b, c, literal, then_value, else_value) ==
    [case |-> case, type_ |-> type_, a |-> a, b |-> b, c |-> c,
     literal |-> literal, then_value |-> then_value, else_value |-> else_value,
     pc |-> "start", compiled |-> NotRun]

TestCases ==
    {TestCase("test_add", "field", a, b, c, 0, 0, 0) : a \in Fq, b \in Fq, c \in Fq}
        \cup {TestCase("test_console_assert", "field", a, b, 0, 0, 0, 0) :
                a \in Fq, b \in Fq}
        \cup {TestCase("test_multiple_returns", "bool", a, 0, 0, 0, x, y) :
                a \in 0..1, x \in 0..MaxLiteral, y \in 0..MaxLiteral}
        \cup {TestCase("test_multiple_returns", "u32", a, 0, 0, k, x, y) :
                a \in 0..MaxLiteral, k \in 0..MaxLiteral,
                x \in 0..MaxLiteral, y \in 0..MaxLiteral}

TInit ==
    /\ test \in TestCases
    /\ dump = <<>> /\ cli = <<>>
    /\ lhs = <<>> /\ rhs = <<>> /\ op = "none" /\ out = <<>>
    /\ director = <<>> /\ program = <<>> /\ result = <<>> /\ runs = 0
    /\ integers = <<>> /\ cs1 = <<>> /\ cs2 = <<>> /\ invoked = <<>> /\ returned = <<>> /\ calls = 0

Compiled(compiled) ==
    /\ test.pc = "start"
    /\ test' = [test EXCEPT !.pc = "done", !.compiled = compiled]
    /\ UNCHANGED <<dump, cli>>
    /\ UNCHANGED gvars
    /\ UNCHANGED dvars
    /\ UNCHANGED ivars

\* test_add: the three elements as decimal strings, the program compiled.
TestAdd ==
    /\ test.case = "test_add"
    /\ Compiled(generate_constraints_helper(add_leo,
            [a |-> InputValue_Field(field_to_decimal_string(test.a)),
             b |-> InputValue_Field(field_to_decimal_string(test.b)),
             c |-> InputValue_Field(field_to_decimal_string(test.c))]))

\* test_console_assert_pass and test_console_assert_fail
TestConsoleAssert ==
    /\ test.case = "test_console_assert"
    /\ Compiled(generate_constraints_helper(console_assert_leo,
            [a |-> InputValue_Field(field_to_decimal_string(test.a)),
             b |-> InputValue_Field(field_to_decimal_string(test.b))]))

\* test_multiple_returns
TestMultipleReturns ==
    /\ test.case = "test_multiple_returns"
    /\ Compiled(generate_constraints_helper(
            multiple_returns_leo(test.type_, test.literal, test.then_value,
                                 test.else_value),
            [a |-> IF test.type_ = "bool" THEN InputValue_Boolean(test.a = 1)
                   ELSE generate_test_input_u32(test.a)]))

TNext == TestAdd \/ TestConsoleAssert \/ TestMultipleReturns

SpecTests == TInit /\ [][TNext]_vars

Tested(case) == test.pc = "done" /\ test.case = case

\* C24: for `if a { return x } else { return y }` the output register is the
\* value of the branch the input selects, x for the input true (or the u32
\* input equal to the literal), y otherwise, and the constraint system is
\* satisfied.
C24_ConditionalReturnsSelectedBranch ==
    Tested("test_multiple_returns")
        => LET selected == IF test.type_ = "bool" THEN test.a = 1
                           ELSE test.a = test.literal
           IN  /\ assert_satisfied(test.compiled)
               /\ get_output(test.compiled) =
                    registers_out(IF selected THEN test.then_value
                                  ELSE test.else_value)

C24_Witness ==
    /\ Tested("test_multiple_returns")
    /\ test.type_ = "bool" /\ test.a = 0
    /\ test.then_value = 1 /\ test.else_value = 0
    /\ assert_satisfied(test.compiled)
    /\ get_output(test.compiled) = registers_out(0)
    /\ Len(test.compiled.tcs.constraints) = 2

\* C25: for all field elements a, b, c the program asserting a + b == c
\* compiles to a satisfied constraint system exactly when a + b = c in the
\* field and fails with a compiler error when it does not; likewise the
\* program asserting a == b.
C25_FieldAssertHoldsIffEqual ==
    /\ Tested("test_add")
        => LET holds == (test.a + test.b - test.c) % Modulus = 0
           IN  /\ assert_satisfied(test.compiled) <=> holds
               /\ expect_compiler_error(test.compiled) <=> ~holds
               /\ ~holds => test.compiled.err = "assertion failed"
    /\ Tested("test_console_assert")
        => /\ assert_satisfied(test.compiled) <=> (test.a = test.b)
           /\ expect_compiler_error(test.compiled) <=> (test.a # test.b)
           /\ test.a # test.b => test.compiled.err = "assertion failed"

C25_Witness ==
    /\ Tested("test_add")
    /\ test.a = Modulus - 2 /\ test.b = 3 /\ test.c = 1
    /\ assert_satisfied(test.compiled)
    /\ Len(test.compiled.tcs.constraints) = 3

====
